---- MODULE Spec2Model ----
(***************************************************************************)
(* Model of ntag424_read.c: the EV2-First handshake, the EV2 secure        *)
(* messaging wrapper (ssm_cmd_full) and the session object they share,     *)
(* together with a card peer that keeps its own command counter.           *)
(*                                                                         *)
(* Byte strings are sequences over 0..255.  The outputs of AES and of      *)
(* AES-CMAC are kept symbolic (records naming key and input), so two       *)
(* outputs are equal exactly when key and input are equal.                 *)
(***************************************************************************)
EXTENDS Integers, Sequences, FiniteSets, TLC

VARIABLES sess, card, last, nSucc

vars == <<sess, card, last, nSucc>>

(***************************************************************************)
(* Program constants                                                       *)
(***************************************************************************)
MAX_APDU == 512

\* uint16_t cmd_ctr: values 0 .. 2^16 - 1
CtrMod == 65536

SCARD_S_SUCCESS == "SCARD_S_SUCCESS"

SCARD_E_PROTO_MISMATCH == "SCARD_E_PROTO_MISMATCH"

\* any error code SCardTransmit itself reports
SCARD_E_FAIL == "SCARD_E_NO_SMARTCARD"

(***************************************************************************)
(* Bounds of the model                                                     *)
(***************************************************************************)
\* Spec: wrapped commands are issued while the card's counter is below this
MaxCtr == 2

\* SpecWrap: wrapped commands are issued while fewer than this many have
\* succeeded since the handshake (one full turn of the 16-bit counter)
WrapLimit == 65537

(***************************************************************************)
(* Byte-string helpers                                                     *)
(***************************************************************************)
Zero(n) == [i \in 1..n |-> 0]

\* memcpy(dst, src + off, n): the n bytes of s that follow the first off
Slice(s, off, n) == [i \in 1..n |-> s[off + i]]

RECURSIVE XorBits(_, _, _)
\* the low n bits of a ^ b
XorBits(a, b, n) ==
    IF n = 0 THEN 0
    ELSE ((a + b) % 2) + (2 * XorBits(a \div 2, b \div 2, n - 1))

\* a ^ b on uint8_t
XorByte(a, b) == XorBits(a, b, 8)

\* the low and the high byte of a 16-bit value, low byte first
Le16(v) == << v % 256, (v \div 256) % 256 >>

(***************************************************************************)
(* External crypto (CommonCrypto), kept symbolic                           *)
(***************************************************************************)
\* A 16-byte key or IV is a record: Block(b) for the literal bytes b, or
\* the record an AES / CMAC operator yields.  A message given to CMAC is a
\* record too: Bytes(b), or MacMsg(...) below.
Block(b) == [raw |-> b]

Bytes(b) == [bytes |-> b]

\* AES-128-ECB of one block: always succeeds on a 16-byte input
aes_ecb_encrypt(key, in) == [ecb_key |-> key, ecb_in |-> in]

\* A byte string on the wire that is the CBC encryption of pt under
\* (key, iv); its length is the length of pt
CbcText(key, iv, pt) == [cbc_key |-> key, cbc_iv |-> iv, cbc_pt |-> pt]

CtLen(c) == Len(c.cbc_pt)

\* What decrypting under another key or IV yields: unrelated bytes
Garble(pt) == [i \in 1..Len(pt) |-> (pt[i] + 85 + i) % 256]

\* CCCrypt without padding option: the input must be block aligned
aes_cbc_encrypt(key, iv, in) ==
    [ok |-> Len(in) % 16 = 0, out |-> CbcText(key, iv, in)]

aes_cbc_decrypt(key, iv, c) ==
    [ok  |-> CtLen(c) % 16 = 0,
     out |-> IF c.cbc_key = key /\ c.cbc_iv = iv THEN c.cbc_pt
                                                 ELSE Garble(c.cbc_pt)]

\* AES-CMAC (RFC 4493), collision free: the tag names key and message
aes_cmac(key, msg) == [cmac_key |-> key, cmac_msg |-> msg]

\* out[i] = cmac[1 + 2 i], i = 0..7
cmac_truncate_8(cmac) ==
    [trunc_of |-> cmac, idx |-> [i \in 1..8 |-> 1 + 2 * (i - 1)]]

(***************************************************************************)
(* Padding and rotation                                                    *)
(***************************************************************************)
\* pad_iso9797_m2 that leaves block-aligned input as it is
pad_iso9797_m2_aligned_as_is(in) ==
    LET pl      == 16 - (Len(in) % 16)
        pad_len == IF pl = 16 THEN 0 ELSE pl
    IN  IF pad_len = 0 THEN in ELSE in \o <<128>> \o Zero(pad_len - 1)

pad_iso9797_m2(in) ==
    LET pl      == 16 - (Len(in) % 16)
        pad_len == IF pl = 0 THEN 16 ELSE pl
    IN  in \o <<128>> \o Zero(pad_len - 1)

RECURSIVE SkipZeros(_, _)
\* while (i >= 0 && buf[i] == 0x00) i--;   (i is a 0-based index)
SkipZeros(buf, i) ==
    IF i >= 0 /\ buf[i + 1] = 0 THEN SkipZeros(buf, i - 1) ELSE i

\* the length unpad_iso9797_m2 returns for the first len bytes of buf
unpad_iso9797_m2(buf, len) ==
    IF len = 0 THEN 0
    ELSE LET i == SkipZeros(buf, len - 1)
         IN  IF i >= 0 /\ buf[i + 1] = 128 THEN i ELSE len

rotate_left_1(in) ==
    IF Len(in) = 0 THEN in
    ELSE [i \in 1..Len(in) |-> IF i < Len(in) THEN in[i + 1] ELSE in[1]]

rotate_right_1(in) ==
    IF Len(in) = 0 THEN in
    ELSE [i \in 1..Len(in) |-> IF i = 1 THEN in[Len(in)] ELSE in[i - 1]]

(***************************************************************************)
(* Session object                                                          *)
(***************************************************************************)
\* memset(&sess, 0, sizeof(sess))
ZeroSession ==
    [kenc |-> Block(Zero(16)), kmac |-> Block(Zero(16)), ti |-> Zero(4),
     cmd_ctr |-> 0, key_no |-> 0, authenticated |-> 0]

(***************************************************************************)
(* APDUs and responses                                                     *)
(***************************************************************************)
\* an empty ciphertext field
NoEnc == CbcText(Block(Zero(16)), Block(Zero(16)), <<>>)

\* eight bytes that are the truncated CMAC of nothing the peers compute
JunkMac == cmac_truncate_8(aes_cmac(Block(Zero(16)), Bytes(<<>>)))

\* CLA INS P1 P2 Lc || hdr || enc || mact (nmac bytes of it) || Le
Apdu(ins, lc, hdr, enc, mact, nmac) ==
    [cla |-> 144, ins |-> ins, p1 |-> 0, p2 |-> 0, lc |-> lc,
     hdr |-> hdr, enc |-> enc, mact |-> mact, nmac |-> nmac, le |-> 0]

\* an ISO case 2 APDU, CLA INS P1 P2 Le (no Lc, no data)
IsoApdu(ins, p1, p2, le) ==
    [cla |-> 0, ins |-> ins, p1 |-> p1, p2 |-> p2, lc |-> 0,
     hdr |-> <<>>, enc |-> NoEnc, mact |-> JunkMac, nmac |-> 0, le |-> le]

\* a body of plain bytes b, in the place a ciphertext takes in a response
Plain(b) == CbcText(Block(Zero(16)), Block(Zero(16)), b)

ApduLen(a) == 5 + Len(a.hdr) + CtLen(a.enc) + a.nmac + 1

\* what SCardTransmit hands back: rc and, on success, raw_len bytes made of
\* enc || mact (nmac bytes of it) || SW1 SW2
RawReply(rc, enc, mact, nmac, sw) ==
    [rc |-> rc, enc |-> enc, mact |-> mact, nmac |-> nmac, sw |-> sw,
     raw_len |-> CtLen(enc) + nmac + 2]

TransportError == RawReply(SCARD_E_FAIL, NoEnc, JunkMac, 0, 0)

\* the message a MAC is computed over: b0 || ctr (LE) || ti || hdr || enc
MacMsg(b0, ctr, ti, hdr, enc) ==
    [b0 |-> b0, ctr |-> Le16(ctr), ti |-> ti, hdr |-> hdr, enc |-> enc]

(***************************************************************************)
(* Session key derivation (used by both peers)                             *)
(***************************************************************************)
\* SV with RndA XORed from its first byte on
SV_xor_unshifted(prefix, rndA, rndB) ==
    LET xor_part == [i \in 1..6 |-> XorByte(rndA[i], rndB[i])]
    IN  prefix \o Slice(rndA, 0, 2) \o xor_part
               \o Slice(rndB, 6, 10) \o Slice(rndA, 8, 8)

SV(prefix, rndA, rndB) ==
    LET xor_part == [i \in 1..6 |-> XorByte(rndA[2 + i], rndB[i])]
    IN  prefix \o Slice(rndA, 0, 2) \o xor_part
               \o Slice(rndB, 6, 10) \o Slice(rndA, 8, 8)

SV1(rndA, rndB) == SV(<<165, 90, 0, 1, 0, 128>>, rndA, rndB)

SV2(rndA, rndB) == SV(<<90, 165, 0, 1, 0, 128>>, rndA, rndB)

(***************************************************************************)
(* The card peer                                                           *)
(***************************************************************************)
\* the AES key the card holds under every key number (factory default)
CardKey == Block(Zero(16))

\* key numbers the card knows
CardKeyNos == 0..4

CardInit ==
    [authed |-> 0, kenc |-> Block(Zero(16)), kmac |-> Block(Zero(16)),
     ti |-> Zero(4), ctr |-> 0, rndB |-> <<>>]

CardStatus(c, sw) ==
    [card |-> c, reply |-> RawReply(SCARD_S_SUCCESS, NoEnc, JunkMac, 0, sw)]

\* AuthenticateEV2First, part 1: a fresh challenge RndB, encrypted
CardAuth1(c, apdu, rnd) ==
    IF apdu.hdr[1] \notin CardKeyNos
    THEN CardStatus([c EXCEPT !.authed = 0, !.rndB = <<>>], 37184)
    ELSE [card  |-> [c EXCEPT !.authed = 0, !.rndB = rnd.rndB],
          reply |-> RawReply(SCARD_S_SUCCESS,
                             CbcText(CardKey, Block(Zero(16)), rnd.rndB),
                             JunkMac, 0, 37295)]

\* the transaction identifier of the card's next session: never the one
\* of the session before
FreshTI(c) == IF c.ti = <<17, 34, 51, 68>> THEN <<1, 2, 3, 4>>
                                           ELSE <<17, 34, 51, 68>>

\* AuthenticateEV2First, part 2: check RndB', answer TI || RndA' || caps
CardAuth2(c, apdu, rnd) ==
    LET d    == aes_cbc_decrypt(CardKey, Block(Zero(16)), apdu.enc).out
        rndA == Slice(d, 0, 16)
        ti   == FreshTI(c)
    IN  IF /\ c.rndB # <<>>
           /\ CtLen(apdu.enc) = 32
           /\ Slice(d, 16, 16) = rotate_left_1(c.rndB)
        THEN [card  |-> [authed |-> 1,
                         kenc   |-> aes_cmac(CardKey, Bytes(SV1(rndA, c.rndB))),
                         kmac   |-> aes_cmac(CardKey, Bytes(SV2(rndA, c.rndB))),
                         ti     |-> ti, ctr |-> 0, rndB |-> <<>>],
              reply |-> RawReply(SCARD_S_SUCCESS,
                                 CbcText(CardKey, Block(Zero(16)),
                                         ti \o rotate_left_1(rndA)
                                                \o Zero(12)),
                                 JunkMac, 0, 37120)]
        ELSE CardStatus([c EXCEPT !.authed = 0, !.rndB = <<>>], 37294)

\* a wrapped command: accepted when its MAC verifies under the card's
\* counter; the card then advances its counter and answers under it
CardWrapped(c, apdu, rnd) ==
    LET ctr1 == (c.ctr + 1) % CtrMod
        ivr  == aes_ecb_encrypt(c.kenc,
                    <<90, 165>> \o c.ti \o Le16(ctr1) \o Zero(8))
        body == IF rnd.data = <<>> THEN NoEnc
                ELSE CbcText(c.kenc, ivr, pad_iso9797_m2(rnd.data))
        rmac == cmac_truncate_8(aes_cmac(c.kmac,
                    MacMsg(rnd.sw2, ctr1, c.ti, <<>>, body)))
    IN  IF /\ c.authed = 1
           /\ apdu.nmac = 8
           /\ apdu.mact = cmac_truncate_8(aes_cmac(c.kmac,
                  MacMsg(apdu.ins, c.ctr, c.ti, apdu.hdr, apdu.enc)))
        THEN [card  |-> [c EXCEPT !.ctr = ctr1],
              reply |-> RawReply(SCARD_S_SUCCESS, body, rmac, 8,
                                 37120 + rnd.sw2)]
        ELSE CardStatus([c EXCEPT !.authed = 0], 37150)

\* an ISO 7816-4 command (CLA 00), here READ BINARY: the bytes asked for,
\* in the clear, with SW 9000
CardIso(c, apdu, rnd) ==
    [card  |-> c,
     reply |-> RawReply(SCARD_S_SUCCESS, Plain(rnd.data), JunkMac, 0, 36864)]

\* GetFileSettings or GetSDMReadCounter outside secure messaging: the data
\* with SW 9100 if the file lets anyone read them, else a status 91XX
CardPlainCmd(c, apdu, rnd) ==
    [card  |-> c,
     reply |-> RawReply(SCARD_S_SUCCESS,
                        IF rnd.sw2 = 0 THEN Plain(rnd.data) ELSE NoEnc,
                        JunkMac, 0, 37120 + rnd.sw2)]

CardAnswer(c, apdu, rnd) ==
    IF apdu.cla = 0 THEN CardIso(c, apdu, rnd)
    ELSE IF apdu.nmac = 0 /\ apdu.ins \in {245, 246}
    THEN CardPlainCmd(c, apdu, rnd)
    ELSE IF apdu.ins = 113 THEN CardAuth1(c, apdu, rnd)
    ELSE IF apdu.ins = 175 THEN CardAuth2(c, apdu, rnd)
    ELSE CardWrapped(c, apdu, rnd)

(***************************************************************************)
(* The transport: reader, air interface and card                           *)
(***************************************************************************)
\* the ciphertext whose plaintext is that of c with the byte at offset off
\* (0-based) replaced by another one
AltByte(c, off) ==
    CbcText(c.cbc_key, c.cbc_iv,
            [i \in 1..Len(c.cbc_pt) |->
                IF i = off + 1 THEN (c.cbc_pt[i] + 1) % 256 ELSE c.cbc_pt[i]])

\* what the line makes of the card's answer a (a.card, a.reply); c is the
\* card as it was before the command
Disturb(c, a, fate) ==
    CASE fate = "lost_cmd" -> [card |-> c, reply |-> TransportError]
      [] fate = "lost_rsp" -> [card |-> a.card, reply |-> TransportError]
      [] fate = "runt"     ->
            [card |-> a.card, reply |-> [a.reply EXCEPT !.raw_len = 1]]
      [] fate = "bad_sw"   ->
            [card |-> a.card, reply |-> [a.reply EXCEPT !.sw = 27266]]
      [] fate = "flip_sw2" ->
            [card |-> a.card,
             reply |-> [a.reply EXCEPT !.sw = IF @ % 2 = 0 THEN @ + 1
                                                           ELSE @ - 1]]
      [] fate = "no_body"  ->
            [card |-> a.card,
             reply |-> RawReply(a.reply.rc, NoEnc, JunkMac, 0, a.reply.sw)]
      [] fate = "bad_mac"  ->
            [card |-> a.card, reply |-> [a.reply EXCEPT !.mact = JunkMac]]
      [] fate = "bad_enc"  ->
            [card |-> a.card,
             reply |-> [a.reply EXCEPT !.enc =
                          CbcText(@.cbc_key, @.cbc_iv, Garble(@.cbc_pt))]]
      [] fate = "alt_byte4" ->
            [card |-> a.card,
             reply |-> [a.reply EXCEPT !.enc = AltByte(@, 4)]]
      [] fate = "alt_byte19" ->
            [card |-> a.card,
             reply |-> [a.reply EXCEPT !.enc = AltByte(@, 19)]]
      [] fate = "alt_byte20" ->
            [card |-> a.card,
             reply |-> [a.reply EXCEPT !.enc = AltByte(@, 20)]]
      [] fate = "wrong_le" ->
            [card |-> a.card,
             reply |-> RawReply(a.reply.rc, NoEnc, JunkMac, 0, 27664)]
      [] OTHER             -> a

\* One SCardTransmit.  ev.fate says what becomes of the exchange, ev.rnd
\* holds the card's own choices.  Yields the card afterwards and the reply.
SCardTransmit(c, apdu, ev) ==
    Disturb(c, CardAnswer(c, apdu, ev.rnd), ev.fate)

\* transmit(): rc, and on success the body (rlen bytes: enc, then nmac
\* bytes of mact) and the status word; sw0, rlen0 are the caller's values
transmit(reply, rlen0, sw0) ==
    IF reply.rc # SCARD_S_SUCCESS
    THEN [rc |-> reply.rc, rlen |-> rlen0, sw |-> sw0,
          enc |-> NoEnc, mact |-> JunkMac, nmac |-> 0]
    ELSE IF reply.raw_len < 2
    THEN [rc |-> SCARD_E_PROTO_MISMATCH, rlen |-> rlen0, sw |-> sw0,
          enc |-> NoEnc, mact |-> JunkMac, nmac |-> 0]
    ELSE [rc |-> SCARD_S_SUCCESS, rlen |-> reply.raw_len - 2,
          sw |-> reply.sw,
          enc |-> reply.enc, mact |-> reply.mact, nmac |-> reply.nmac]

(***************************************************************************)
(* authenticate_ev2_first                                                  *)
(***************************************************************************)
\* ev2_store without the counter reset
ev2_store_keeps_ctr(s, key, sv1, sv2, ti, key_no) ==
    [s EXCEPT !.kenc = aes_cmac(key, Bytes(sv1)),
              !.kmac = aes_cmac(key, Bytes(sv2)),
              !.ti = ti,
              !.key_no = key_no,
              !.authenticated = 1]

\* the session a successful handshake leaves behind
ev2_store(s, key, sv1, sv2, ti, key_no) ==
    [s EXCEPT !.kenc = aes_cmac(key, Bytes(sv1)),
              !.kmac = aes_cmac(key, Bytes(sv2)),
              !.ti = ti,
              !.cmd_ctr = 0,
              !.key_no = key_no,
              !.authenticated = 1]

\* return 0: the session object is left as it was.  apdus, ts: the APDUs
\* transmitted so far and what transmit returned for each
auth_fail(s, cd, apdus, ts, d) ==
    [ret |-> 0, sess |-> s, card |-> cd, sent |-> Len(apdus),
     t |-> ts[Len(ts)], dec |-> d, apdus |-> apdus, ts |-> ts]

\* auth_finish without the comparison of line 595
auth_finish_no_check(key, key_no, s, rndA, rndB, cd, apdus, ts, dec) ==
    [ret  |-> 1,
     sess |-> ev2_store(s, key, SV1(rndA, rndB), SV2(rndA, rndB),
                        Slice(dec, 0, 4), key_no),
     card |-> cd, sent |-> Len(apdus), t |-> ts[2], dec |-> dec,
     apdus |-> apdus, ts |-> ts]

\* dec: the decrypted second response; check RndA', store the session
auth_finish(key, key_no, s, rndA, rndB, cd, apdus, ts, dec) ==
    IF rotate_right_1(Slice(dec, 4, 16)) # rndA
    THEN auth_fail(s, cd, apdus, ts, dec)
    ELSE [ret  |-> 1,
          sess |-> ev2_store(s, key, SV1(rndA, rndB), SV2(rndA, rndB),
                             Slice(dec, 0, 4), key_no),
          card |-> cd, sent |-> Len(apdus), t |-> ts[2], dec |-> dec,
          apdus |-> apdus, ts |-> ts]

\* ts[2]: what the second transmit returned
auth_check2(key, key_no, s, rndA, rndB, cd, apdus, ts) ==
    IF ts[2].rc # SCARD_S_SUCCESS THEN auth_fail(s, cd, apdus, ts, <<>>)
    ELSE IF ts[2].sw # 37120 \/ ts[2].rlen # 32
    THEN auth_fail(s, cd, apdus, ts, <<>>)
    ELSE auth_finish(key, key_no, s, rndA, rndB, cd, apdus, ts,
                     aes_cbc_decrypt(key, Block(Zero(16)), ts[2].enc).out)

\* x2: the second exchange (card afterwards, raw reply)
auth_recv2(key, key_no, s, rndA, rndB, apdus, t1, x2) ==
    auth_check2(key, key_no, s, rndA, rndB, x2.card, apdus,
                <<t1, transmit(x2.reply, MAX_APDU, t1.sw)>>)

\* apdu2: 90 AF 00 00 20 <RndA || RndB'> 00
auth_send2(key, key_no, s, rndA, rndB, ev2, cd, apdu1, t1, apdu2) ==
    auth_recv2(key, key_no, s, rndA, rndB, <<apdu1, apdu2>>, t1,
               SCardTransmit(cd, apdu2, ev2))

\* rndB: the decrypted first response; build the second APDU
auth_part2(key, key_no, s, rndA, ev2, cd, apdu1, t1, rndB) ==
    auth_send2(key, key_no, s, rndA, rndB, ev2, cd, apdu1, t1,
        Apdu(175, 32, <<>>,
             aes_cbc_encrypt(key, Block(Zero(16)),
                             rndA \o rotate_left_1(rndB)).out,
             JunkMac, 0))

\* auth_check1 without the length test of line 543
auth_check1_any_len(key, key_no, s, rndA, ev2, cd, apdu1, t1) ==
    IF t1.rc # SCARD_S_SUCCESS
    THEN auth_fail(s, cd, <<apdu1>>, <<t1>>, <<>>)
    ELSE IF t1.sw # 37295
    THEN auth_fail(s, cd, <<apdu1>>, <<t1>>, <<>>)
    ELSE auth_part2(key, key_no, s, rndA, ev2, cd, apdu1, t1,
                    aes_cbc_decrypt(key, Block(Zero(16)), t1.enc).out)

\* t1: what the first transmit returned
auth_check1(key, key_no, s, rndA, ev2, cd, apdu1, t1) ==
    IF t1.rc # SCARD_S_SUCCESS
    THEN auth_fail(s, cd, <<apdu1>>, <<t1>>, <<>>)
    ELSE IF t1.sw # 37295 \/ t1.rlen # 16
    THEN auth_fail(s, cd, <<apdu1>>, <<t1>>, <<>>)
    ELSE auth_part2(key, key_no, s, rndA, ev2, cd, apdu1, t1,
                    aes_cbc_decrypt(key, Block(Zero(16)), t1.enc).out)

\* x1: the first exchange (card afterwards, raw reply)
auth_recv1(key, key_no, s, rndA, ev2, apdu1, x1) ==
    auth_check1(key, key_no, s, rndA, ev2, x1.card, apdu1,
                transmit(x1.reply, MAX_APDU, 0))

\* apdu1: 90 71 00 00 02 KeyNo 00 00
auth_send1(c, key, key_no, s, rndA, ev1, ev2, apdu1) ==
    auth_recv1(key, key_no, s, rndA, ev2, apdu1,
               SCardTransmit(c, apdu1, ev1))

\* c: the card before the call; s: the caller's session object; rndA: the
\* 16 bytes drawn from the RNG; ev1, ev2: what happens to the two exchanges.
\* Yields ret, the session object and the card afterwards, the APDUs
\* transmitted (apdus, sent of them), what transmit returned for each (ts,
\* t the last) and the decrypted second response (dec, empty when the call
\* did not get that far).
authenticate_ev2_first(c, key, key_no, s, rndA, ev1, ev2) ==
    auth_send1(c, key, key_no, s, rndA, ev1, ev2,
               Apdu(113, 2, <<key_no, 0>>, NoEnc, JunkMac, 0))

(***************************************************************************)
(* ssm_cmd_full                                                            *)
(***************************************************************************)
\* uint16_t cmdctr1 = (uint16_t)(sess->cmd_ctr + 1)
ctr_next(ctr) == (ctr + 1) % CtrMod

\* ssm_transport_failed that also drops the session
ssm_transport_failed_clears(s) ==
    [ret |-> 0, sess |-> [s EXCEPT !.authenticated = 0], out |-> <<>>]

\* return 0 after the transport failed
ssm_transport_failed(s) == [ret |-> 0, sess |-> s, out |-> <<>>]

\* ssm_mac_mismatch with the counter stored before the comparison
ssm_mac_mismatch_advances(s) ==
    [ret |-> 0, sess |-> [s EXCEPT !.cmd_ctr = ctr_next(@)], out |-> <<>>]

\* ssm_mac_mismatch that wipes the session keys and the transaction id
ssm_mac_mismatch_wipes(s) ==
    [ret |-> 0,
     sess |-> [s EXCEPT !.kenc = Block(Zero(16)), !.kmac = Block(Zero(16)),
                        !.ti = Zero(4)],
     out |-> <<>>]

\* return 0 after the response MAC did not compare equal
ssm_mac_mismatch(s) == [ret |-> 0, sess |-> s, out |-> <<>>]

\* ssm_deliver without the store of line 773
ssm_deliver_keeps_ctr(s, cmdctr1, ivr, resp_enc, out_cap) ==
    LET resp_enc_len == CtLen(resp_enc)
        d            == aes_cbc_decrypt(s.kenc, ivr, resp_enc)
        out_written  == unpad_iso9797_m2(d.out, resp_enc_len)
    IN  IF resp_enc_len > 0 /\ ~d.ok
        THEN [ret |-> 0, sess |-> s, out |-> <<>>]
        ELSE IF resp_enc_len > 0 /\ out_written > out_cap
        THEN [ret |-> 0, sess |-> s, out |-> <<>>]
        ELSE [ret  |-> 1,
              sess |-> s,
              out  |-> IF resp_enc_len > 0 THEN Slice(d.out, 0, out_written)
                                           ELSE <<>>]

\* ssm_deliver storing the counter through a uint8_t
ssm_deliver_u8(s, cmdctr1, ivr, resp_enc, out_cap) ==
    LET resp_enc_len == CtLen(resp_enc)
        d            == aes_cbc_decrypt(s.kenc, ivr, resp_enc)
        out_written  == unpad_iso9797_m2(d.out, resp_enc_len)
    IN  IF resp_enc_len > 0 /\ ~d.ok
        THEN [ret |-> 0, sess |-> s, out |-> <<>>]
        ELSE IF resp_enc_len > 0 /\ out_written > out_cap
        THEN [ret |-> 0, sess |-> s, out |-> <<>>]
        ELSE [ret  |-> 1,
              sess |-> [s EXCEPT !.cmd_ctr = cmdctr1 % 256],
              out  |-> IF resp_enc_len > 0 THEN Slice(d.out, 0, out_written)
                                           ELSE <<>>]

\* after the MAC check: decrypt, unpad, copy out, advance the counter
ssm_deliver(s, cmdctr1, ivr, resp_enc, out_cap) ==
    LET resp_enc_len == CtLen(resp_enc)
        d            == aes_cbc_decrypt(s.kenc, ivr, resp_enc)
        out_written  == unpad_iso9797_m2(d.out, resp_enc_len)
    IN  IF resp_enc_len > 0 /\ ~d.ok
        THEN [ret |-> 0, sess |-> s, out |-> <<>>]
        ELSE IF resp_enc_len > 0 /\ out_written > out_cap
        THEN [ret |-> 0, sess |-> s, out |-> <<>>]
        ELSE [ret  |-> 1,
              sess |-> [s EXCEPT !.cmd_ctr = cmdctr1],
              out  |-> IF resp_enc_len > 0 THEN Slice(d.out, 0, out_written)
                                           ELSE <<>>]

\* ssm_unwrap with a response MAC computed over a constant status byte
ssm_unwrap_mac_without_sw2(s, t, out_cap) ==
    LET sw1      == t.sw \div 256
        resp_enc == t.enc
        cmdctr1  == ctr_next(s.cmd_ctr)
        ivr      == aes_ecb_encrypt(s.kenc,
                        <<90, 165>> \o s.ti \o Le16(cmdctr1) \o Zero(8))
        mac_in2  == MacMsg(0, cmdctr1, s.ti, <<>>, resp_enc)
        mact2    == cmac_truncate_8(aes_cmac(s.kmac, mac_in2))
    IN  IF sw1 # 145 THEN [ret |-> 0, sess |-> s, out |-> <<>>]
        ELSE IF t.rlen < 8 THEN [ret |-> 0, sess |-> s, out |-> <<>>]
        ELSE IF t.mact # mact2 THEN ssm_mac_mismatch(s)
        ELSE ssm_deliver(s, cmdctr1, ivr, resp_enc, out_cap)

\* ssm_unwrap with the response IV from the counter of the command
ssm_unwrap_iv_old_ctr(s, t, out_cap) ==
    LET sw1      == t.sw \div 256
        sw2      == t.sw % 256
        resp_enc == t.enc
        cmdctr1  == ctr_next(s.cmd_ctr)
        ivr      == aes_ecb_encrypt(s.kenc,
                        <<90, 165>> \o s.ti \o Le16(s.cmd_ctr) \o Zero(8))
        mac_in2  == MacMsg(sw2, cmdctr1, s.ti, <<>>, resp_enc)
        mact2    == cmac_truncate_8(aes_cmac(s.kmac, mac_in2))
    IN  IF sw1 # 145 THEN [ret |-> 0, sess |-> s, out |-> <<>>]
        ELSE IF t.rlen < 8 THEN [ret |-> 0, sess |-> s, out |-> <<>>]
        ELSE IF t.mact # mact2 THEN ssm_mac_mismatch(s)
        ELSE ssm_deliver(s, cmdctr1, ivr, resp_enc, out_cap)

\* from the first byte of the response to the return
ssm_unwrap(s, t, out_cap) ==
    LET sw1      == t.sw \div 256
        sw2      == t.sw % 256
        resp_enc == t.enc
        cmdctr1  == ctr_next(s.cmd_ctr)
        ivr      == aes_ecb_encrypt(s.kenc,
                        <<90, 165>> \o s.ti \o Le16(cmdctr1) \o Zero(8))
        mac_in2  == MacMsg(sw2, cmdctr1, s.ti, <<>>, resp_enc)
        mact2    == cmac_truncate_8(aes_cmac(s.kmac, mac_in2))
    IN  IF sw1 # 145 THEN [ret |-> 0, sess |-> s, out |-> <<>>]
        ELSE IF t.rlen < 8 THEN [ret |-> 0, sess |-> s, out |-> <<>>]
        ELSE IF t.mact # mact2 THEN ssm_mac_mismatch(s)
        ELSE ssm_deliver(s, cmdctr1, ivr, resp_enc, out_cap)

\* ssm_wrap without the test of line 703
ssm_wrap_any_lc(s, cmd, hdr, data) ==
    LET ivc_in == <<165, 90>> \o s.ti \o Le16(s.cmd_ctr) \o Zero(8)
        ivc    == aes_ecb_encrypt(s.kenc, ivc_in)
        padded == pad_iso9797_m2(data)
        e      == aes_cbc_encrypt(s.kenc, ivc, padded)
        enc    == IF Len(data) > 0 THEN e.out ELSE NoEnc
        enc_len == CtLen(enc)
        mac_input == MacMsg(cmd, s.cmd_ctr, s.ti, hdr, enc)
        mact   == cmac_truncate_8(aes_cmac(s.kmac, mac_input))
        data_len == Len(hdr) + enc_len + 8
    IN  IF Len(data) > 0 /\ Len(padded) > MAX_APDU THEN [ok |-> FALSE]
        ELSE IF Len(data) > 0 /\ ~e.ok THEN [ok |-> FALSE]
        ELSE [ok |-> TRUE, apdu |-> Apdu(cmd, data_len, hdr, enc, mact, 8)]

\* ssm_wrap with the command MAC over the counter the response will carry
ssm_wrap_mac_next_ctr(s, cmd, hdr, data) ==
    LET ivc_in == <<165, 90>> \o s.ti \o Le16(s.cmd_ctr) \o Zero(8)
        ivc    == aes_ecb_encrypt(s.kenc, ivc_in)
        padded == pad_iso9797_m2(data)
        e      == aes_cbc_encrypt(s.kenc, ivc, padded)
        enc    == IF Len(data) > 0 THEN e.out ELSE NoEnc
        enc_len == CtLen(enc)
        mac_input == MacMsg(cmd, ctr_next(s.cmd_ctr), s.ti, hdr, enc)
        mact   == cmac_truncate_8(aes_cmac(s.kmac, mac_input))
        data_len == Len(hdr) + enc_len + 8
    IN  IF Len(data) > 0 /\ Len(padded) > MAX_APDU THEN [ok |-> FALSE]
        ELSE IF Len(data) > 0 /\ ~e.ok THEN [ok |-> FALSE]
        ELSE IF data_len > 255 THEN [ok |-> FALSE]
        ELSE [ok |-> TRUE, apdu |-> Apdu(cmd, data_len, hdr, enc, mact, 8)]

\* the APDU built from the session and the command, or none
ssm_wrap(s, cmd, hdr, data) ==
    LET ivc_in == <<165, 90>> \o s.ti \o Le16(s.cmd_ctr) \o Zero(8)
        ivc    == aes_ecb_encrypt(s.kenc, ivc_in)
        padded == pad_iso9797_m2(data)
        e      == aes_cbc_encrypt(s.kenc, ivc, padded)
        enc    == IF Len(data) > 0 THEN e.out ELSE NoEnc
        enc_len == CtLen(enc)
        mac_input == MacMsg(cmd, s.cmd_ctr, s.ti, hdr, enc)
        mact   == cmac_truncate_8(aes_cmac(s.kmac, mac_input))
        data_len == Len(hdr) + enc_len + 8
    IN  IF Len(data) > 0 /\ Len(padded) > MAX_APDU THEN [ok |-> FALSE]
        ELSE IF Len(data) > 0 /\ ~e.ok THEN [ok |-> FALSE]
        ELSE IF data_len > 255 THEN [ok |-> FALSE]
        ELSE [ok |-> TRUE, apdu |-> Apdu(cmd, data_len, hdr, enc, mact, 8)]

\* lines 664-715 by lengths: how many bytes of each local buffer of
\* ssm_cmd_full are written for header_len header bytes and data_len data
\* bytes, in the order of the code, and whether the command is rejected
\* (pad_iso9797_m2 fills padded before line 669 tests the length, and
\* mac_input is filled before line 703 tests Lc)
ssm_buffers(cmd_header_len, cmd_data_len) ==
    LET padded_len == IF cmd_data_len > 0
                      THEN Len(pad_iso9797_m2(Zero(cmd_data_len))) ELSE 0
        too_long   == cmd_data_len > 0 /\ padded_len > MAX_APDU
        enc_len    == IF too_long THEN 0 ELSE padded_len
        data_len   == cmd_header_len + enc_len + 8
    IN  [padded    |-> padded_len,
         enc_data  |-> enc_len,
         mac_input |-> IF too_long THEN 0 ELSE 7 + cmd_header_len + enc_len,
         apdu      |-> IF too_long THEN 0
                       ELSE IF data_len > 255 THEN 4
                       ELSE 5 + cmd_header_len + enc_len + 8 + 1,
         rejected  |-> too_long \/ data_len > 255]

\* return 0 before anything was transmitted
ssm_refused(c, s) ==
    [ret |-> 0, sess |-> s, card |-> c, sent |-> 0,
     t |-> transmit(TransportError, MAX_APDU, 0), out |-> <<>>,
     apdus |-> <<>>, ts |-> <<>>]

\* u: ret, session and plaintext after the exchange's transmit returned t
ssm_result(cd, apdu, t, u) ==
    [ret |-> u.ret, sess |-> u.sess, card |-> cd, sent |-> 1, t |-> t,
     out |-> u.out, apdus |-> <<apdu>>, ts |-> <<t>>]

\* t: what transmit returned
ssm_answer(s, out_cap, cd, apdu, t) ==
    ssm_result(cd, apdu, t, IF t.rc # SCARD_S_SUCCESS
                            THEN ssm_transport_failed(s)
                            ELSE ssm_unwrap(s, t, out_cap))

\* x: the exchange (card afterwards, raw reply)
ssm_recv(s, out_cap, apdu, x) ==
    ssm_answer(s, out_cap, x.card, apdu, transmit(x.reply, MAX_APDU, 0))

\* w: the wrapped command, or none
ssm_send(c, s, out_cap, ev, w) ==
    IF ~w.ok THEN ssm_refused(c, s)
    ELSE ssm_recv(s, out_cap, w.apdu, SCardTransmit(c, w.apdu, ev))

\* ssm_cmd_full without the test of line 653
ssm_cmd_full_unchecked(c, s, cmd, hdr, data, out_cap, ev) ==
    ssm_send(c, s, out_cap, ev, ssm_wrap(s, cmd, hdr, data))

\* Responses of 8 bytes or more are modelled with their last 8 bytes in
\* mact (nmac = 8) and the bytes before them in enc.
ssm_cmd_full(c, s, cmd, hdr, data, out_cap, ev) ==
    IF s.authenticated = 0 THEN ssm_refused(c, s)
    ELSE ssm_send(c, s, out_cap, ev, ssm_wrap(s, cmd, hdr, data))

(***************************************************************************)
(* read_binary                                                             *)
(***************************************************************************)
sw_ok(sw) == sw = 36864 \/ sw = 37120

\* return 0 after a transmit failed
rb_fail(cd, apdus, ts) ==
    [ret |-> 0, card |-> cd, sent |-> Len(apdus), t |-> ts[Len(ts)],
     out |-> <<>>, apdus |-> apdus, ts |-> ts]

\* lines 516-520: the status word decides; the body is copied out
rb_finish(cd, apdus, ts) ==
    [ret |-> IF sw_ok(ts[Len(ts)].sw) THEN 1 ELSE 0,
     card |-> cd, sent |-> Len(apdus), t |-> ts[Len(ts)],
     out |-> IF sw_ok(ts[Len(ts)].sw) THEN ts[Len(ts)].enc.cbc_pt ELSE <<>>,
     apdus |-> apdus, ts |-> ts]

\* the retry of lines 509-514 that goes on however often the card says 6CXX
rb_check2_again(cd, apdus, t1, t2) ==
    IF t2.rc # SCARD_S_SUCCESS THEN rb_fail(cd, apdus, <<t1, t2>>)
    ELSE IF t2.sw \div 256 = 108
    THEN rb_finish(cd, Append(apdus, [apdus[2] EXCEPT !.le = t2.sw % 256]),
                   <<t1, t2, t2>>)
    ELSE rb_finish(cd, apdus, <<t1, t2>>)

\* t2: what the second transmit returned
rb_check2(cd, apdus, t1, t2) ==
    IF t2.rc # SCARD_S_SUCCESS THEN rb_fail(cd, apdus, <<t1, t2>>)
    ELSE rb_finish(cd, apdus, <<t1, t2>>)

\* x2: the second exchange
rb_recv2(apdus, t1, x2) ==
    rb_check2(x2.card, apdus, t1, transmit(x2.reply, MAX_APDU, t1.sw))

\* apdu2: the APDU with apdu[4] = SW2
rb_retry(cd, apdu, t1, apdu2, ev2) ==
    rb_recv2(<<apdu, apdu2>>, t1, SCardTransmit(cd, apdu2, ev2))

\* t1: what the first transmit returned
rb_check1(cd, apdu, t1, ev2) ==
    IF t1.rc # SCARD_S_SUCCESS THEN rb_fail(cd, <<apdu>>, <<t1>>)
    ELSE IF t1.sw \div 256 = 108
    THEN rb_retry(cd, apdu, t1, [apdu EXCEPT !.le = t1.sw % 256], ev2)
    ELSE rb_finish(cd, <<apdu>>, <<t1>>)

\* x1: the first exchange
rb_recv1(apdu, ev2, x1) ==
    rb_check1(x1.card, apdu, transmit(x1.reply, MAX_APDU, 0), ev2)

rb_send1(c, apdu, ev1, ev2) ==
    rb_recv1(apdu, ev2, SCardTransmit(c, apdu, ev1))

\* 00 B0 offset(2) le; ev1, ev2: what happens to the first exchange and
\* to the second one, if there is one
read_binary(c, offset, le, ev1, ev2) ==
    rb_send1(c, IsoApdu(176, (offset \div 256) % 256, offset % 256, le),
             ev1, ev2)

(***************************************************************************)
(* File settings: the ChangeFileSettings data and the parser of the       *)
(* GetFileSettings response                                                *)
(***************************************************************************)
\* v & mask # 0, for a mask of one bit
BitSet(v, mask) == (v \div mask) % 2 = 1

read_u24_le(p, idx) ==
    p[idx + 1] + p[idx + 2] * 256 + p[idx + 3] * 65536

write_u24_le(v) == << v % 256, (v \div 256) % 256, (v \div 65536) % 256 >>

\* the data of lines 945-979 with the two bytes of sdm_ar the other way
\* round
cfs_data_ar_msb_first(comm_mode, ar1, ar2, sdm_options, sdm_meta, sdm_file, sdm_ctr, uid_offset, sdm_read_ctr_offset, sdm_mac_input_offset, sdm_mac_offset) ==
    LET file_option == (comm_mode % 4) + 64
        sdm_ar == (sdm_meta % 16) * 4096 + (sdm_file % 16) * 256
                      + 15 * 16 + (sdm_ctr % 16)
    IN  << file_option, ar1, ar2, sdm_options,
           (sdm_ar \div 256) % 256, sdm_ar % 256 >>
        \o (IF BitSet(sdm_options, 128) /\ sdm_meta = 14
            THEN write_u24_le(uid_offset) ELSE <<>>)
        \o (IF BitSet(sdm_options, 64) /\ sdm_meta = 14
            THEN write_u24_le(sdm_read_ctr_offset) ELSE <<>>)
        \o (IF sdm_file # 15 THEN write_u24_le(sdm_mac_input_offset)
                             ELSE <<>>)
        \o (IF sdm_file # 15 THEN write_u24_le(sdm_mac_offset) ELSE <<>>)

\* cfs_data that also emits the ENC offset and length when SDMOptions asks
\* for encrypted file data
cfs_data_with_enc(comm_mode, ar1, ar2, sdm_options, sdm_meta, sdm_file, sdm_ctr, uid_offset, sdm_read_ctr_offset, sdm_mac_input_offset, sdm_mac_offset) ==
    LET file_option == (comm_mode % 4) + 64
        sdm_ar == (sdm_meta % 16) * 4096 + (sdm_file % 16) * 256
                      + 15 * 16 + (sdm_ctr % 16)
    IN  << file_option, ar1, ar2, sdm_options,
           sdm_ar % 256, (sdm_ar \div 256) % 256 >>
        \o (IF BitSet(sdm_options, 128) /\ sdm_meta = 14
            THEN write_u24_le(uid_offset) ELSE <<>>)
        \o (IF BitSet(sdm_options, 64) /\ sdm_meta = 14
            THEN write_u24_le(sdm_read_ctr_offset) ELSE <<>>)
        \o (IF sdm_file # 15 THEN write_u24_le(sdm_mac_input_offset)
                             ELSE <<>>)
        \o (IF sdm_file # 15 /\ BitSet(sdm_options, 16)
            THEN write_u24_le(sdm_mac_input_offset) \o write_u24_le(0)
            ELSE <<>>)
        \o (IF sdm_file # 15 THEN write_u24_le(sdm_mac_offset) ELSE <<>>)

\* change_file_settings_sdm, lines 945-979: the command data it hands to
\* ssm_cmd_full (the tests of sdm_meta and sdm_file are on the arguments
\* as given, the nibbles of sdm_ar on the masked ones)
cfs_data(comm_mode, ar1, ar2, sdm_options, sdm_meta, sdm_file, sdm_ctr, uid_offset, sdm_read_ctr_offset, sdm_mac_input_offset, sdm_mac_offset) ==
    LET file_option == (comm_mode % 4) + 64
        sdm_ar == (sdm_meta % 16) * 4096 + (sdm_file % 16) * 256
                      + 15 * 16 + (sdm_ctr % 16)
    IN  << file_option, ar1, ar2, sdm_options,
           sdm_ar % 256, (sdm_ar \div 256) % 256 >>
        \o (IF BitSet(sdm_options, 128) /\ sdm_meta = 14
            THEN write_u24_le(uid_offset) ELSE <<>>)
        \o (IF BitSet(sdm_options, 64) /\ sdm_meta = 14
            THEN write_u24_le(sdm_read_ctr_offset) ELSE <<>>)
        \o (IF sdm_file # 15 THEN write_u24_le(sdm_mac_input_offset)
                             ELSE <<>>)
        \o (IF sdm_file # 15 THEN write_u24_le(sdm_mac_offset) ELSE <<>>)

\* memset(info, 0, sizeof(*info))
NoInfo ==
    [valid |-> 0, sdm_enabled |-> 0, sdm_read_ctr_enabled |-> 0,
     file_option |-> 0, sdm_options |-> 0, sdm_meta_read |-> 0,
     sdm_file_read |-> 0, sdm_ctr_ret |-> 0, ar1 |-> 0, ar2 |-> 0,
     file_size |-> 0]

\* the 24-bit values of one optional field group, read from idx on, each
\* as <<name, idx, value>>
pfs_values(data, idx, names) ==
    [k \in 1..Len(names) |->
        <<names[k], idx + 3 * (k - 1),
          read_u24_le(data, idx + 3 * (k - 1))>>]

\* pfs_optional that tests for one byte where a group needs three or six
pfs_optional_one_byte(data, idx, fields, read) ==
    IF fields = <<>> THEN [ret |-> 1, read |-> read]
    ELSE IF ~fields[1][1]
    THEN [ret |-> 2, idx |-> idx, read |-> read]
    ELSE IF Len(data) < idx + 1 THEN [ret |-> 0, read |-> read]
    ELSE [ret |-> 2, idx |-> idx + 3 * Len(fields[1][2]),
          read |-> read \o pfs_values(data \o Zero(6), idx, fields[1][2])]

\* lines 857-911, one group: fields[1] is <<present, names>>; a group that
\* is present and does not fit makes the parse fail (ret 0), else the
\* parse goes on (ret 2) behind it; read: the values printed so far
pfs_optional(data, idx, fields, read) ==
    IF fields = <<>> THEN [ret |-> 1, read |-> read]
    ELSE IF ~fields[1][1]
    THEN [ret |-> 2, idx |-> idx, read |-> read]
    ELSE IF Len(data) < idx + 3 * Len(fields[1][2])
    THEN [ret |-> 0, read |-> read]
    ELSE [ret |-> 2, idx |-> idx + 3 * Len(fields[1][2]),
          read |-> read \o pfs_values(data, idx, fields[1][2])]

RECURSIVE pfs_optionals(_, _, _, _)
\* lines 857-913: the optional groups in their order
pfs_optionals(data, idx, fields, read) ==
    LET r == pfs_optional(data, idx, fields, read)
    IN  IF r.ret = 2 THEN pfs_optionals(data, r.idx, Tail(fields), r.read)
        ELSE r

\* lines 830-913, info1 being what lines 818-825 stored
pfs_sdm(data, info1) ==
    LET sdm_options == data[8]
        sdm_ar   == data[9] + data[10] * 256
        sdm_meta == (sdm_ar \div 4096) % 16
        sdm_file == (sdm_ar \div 256) % 16
        sdm_ctr  == sdm_ar % 16
        r == pfs_optionals(data, 10,
                << <<BitSet(sdm_options, 128) /\ sdm_meta = 14,
                     <<"UIDOffset">> >>,
                   <<BitSet(sdm_options, 64) /\ sdm_meta = 14,
                     <<"SDMReadCtrOffset">> >>,
                   <<sdm_meta <= 4, <<"PICCDataOffset">> >>,
                   <<sdm_file # 15, <<"SDMMACInputOffset">> >>,
                   <<sdm_file # 15 /\ BitSet(sdm_options, 16),
                     <<"SDMENCOffset", "SDMENCLength">> >>,
                   <<sdm_file # 15, <<"SDMMACOffset">> >>,
                   <<BitSet(sdm_options, 32), <<"SDMReadCtrLimit">> >> >>,
                <<>>)
    IN  [ret  |-> r.ret,
         read |-> r.read,
         info |-> [info1 EXCEPT
                     !.sdm_options = sdm_options,
                     !.sdm_meta_read = sdm_meta,
                     !.sdm_file_read = sdm_file,
                     !.sdm_ctr_ret = sdm_ctr,
                     !.sdm_read_ctr_enabled =
                         IF BitSet(sdm_options, 64) THEN 1 ELSE 0]]

\* lines 818-829
pfs_head(data, info1) ==
    IF ~BitSet(info1.file_option, 64)
    THEN [ret |-> 1, info |-> info1, read |-> <<>>]
    ELSE IF Len(data) < 10 THEN [ret |-> 0, info |-> info1, read |-> <<>>]
    ELSE pfs_sdm(data, info1)

parse_file_settings(data) ==
    IF Len(data) < 7 THEN [ret |-> 0, info |-> NoInfo, read |-> <<>>]
    ELSE pfs_head(data,
            [NoInfo EXCEPT !.valid = 1,
                           !.file_option = data[2],
                           !.file_size = read_u24_le(data, 4),
                           !.sdm_enabled = IF BitSet(data[2], 64) THEN 1
                                                                 ELSE 0,
                           !.ar1 = data[3],
                           !.ar2 = data[4]])

(***************************************************************************)
(* crc32_ieee.  A uint32_t is kept as its two 16-bit halves <<hi, lo>>,    *)
(* the checker's integers being 32-bit signed.                             *)
(***************************************************************************)
\* a ^ b on uint32_t
xor32(a, b) == <<XorBits(a[1], b[1], 16), XorBits(a[2], b[2], 16)>>

\* a >> 1 on uint32_t
shr32(a) == <<a[1] \div 2, (a[2] \div 2) + 32768 * (a[1] % 2)>>

\* one round of the inner loop; 0xEDB88320 is <<60856, 33568>>
crc_bit(crc) ==
    IF crc[2] % 2 = 1 THEN xor32(shr32(crc), <<60856, 33568>>)
                      ELSE shr32(crc)

RECURSIVE crc_bits(_, _)
\* j rounds of the inner loop (each round's value is computed before the
\* next round starts)
crc_bits(crc, j) ==
    IF j = 0 THEN crc
    ELSE CHOOSE r \in { crc_bits(c, j - 1) : c \in {crc_bit(crc)} } : TRUE

RECURSIVE crc_bytes(_, _, _)
\* the outer loop from data[i] on (i from 1)
crc_bytes(crc, data, i) ==
    IF i > Len(data) THEN crc
    ELSE CHOOSE r \in { crc_bytes(c, data, i + 1) :
                        c \in {crc_bits(xor32(crc, <<0, data[i]>>), 8)} } : TRUE

\* crc32_ieee with the final inversion of the Ethernet CRC32
crc32_ieee_inverted(data) ==
    xor32(crc_bytes(<<65535, 65535>>, data, 1), <<65535, 65535>>)

crc32_ieee(data) == crc_bytes(<<65535, 65535>>, data, 1)

(***************************************************************************)
(* Commands outside secure messaging                                       *)
(***************************************************************************)
\* x: the exchange (card afterwards, raw reply)
xch_recv(apdu, x) ==
    [card |-> x.card, apdu |-> apdu, t |-> transmit(x.reply, MAX_APDU, 0)]

\* one transmit() of apdu with rlen = sizeof(resp) and sw = 0 before it
Exchange(c, apdu, ev) == xch_recv(apdu, SCardTransmit(c, apdu, ev))

\* rc == SCARD_S_SUCCESS && sw_ok(sw)
XchOk(x) == x.t.rc = SCARD_S_SUCCESS /\ sw_ok(x.t.sw)

\* lines 785-790
gfs_plain_done(out_cap, x) ==
    [ret  |-> IF XchOk(x) /\ x.t.rlen <= out_cap THEN 1 ELSE 0,
     card |-> x.card,
     out  |-> IF XchOk(x) /\ x.t.rlen <= out_cap THEN x.t.enc.cbc_pt
                                                 ELSE <<>>,
     apdus |-> <<x.apdu>>, ts |-> <<x.t>>]

\* 90 F5 00 00 01 file_no 00
get_file_settings_plain(c, file_no, out_cap, ev) ==
    gfs_plain_done(out_cap,
        Exchange(c, Apdu(245, 1, <<file_no>>, NoEnc, JunkMac, 0), ev))

get_file_settings_secure(c, s, file_no, out_cap, ev) ==
    ssm_cmd_full(c, s, 245, <<file_no>>, <<>>, out_cap, ev)

\* lines 981-984: the data of lines 945-979 go out under INS 0x5F with the
\* file number as header, into a 16-byte response buffer
change_file_settings_sdm(c, s, file_no, comm_mode, ar1, ar2, sdm_options, sdm_meta, sdm_file, sdm_ctr, uid_offset, sdm_read_ctr_offset, sdm_mac_input_offset, sdm_mac_offset, ev) ==
    ssm_cmd_full(c, s, 95, <<file_no>>,
                 cfs_data(comm_mode, ar1, ar2, sdm_options, sdm_meta,
                          sdm_file, sdm_ctr, uid_offset, sdm_read_ctr_offset,
                          sdm_mac_input_offset, sdm_mac_offset),
                 16, ev)

\* change_key's key_data with the CRC most significant byte first
ckey_data_crc_be(old_key, new_key, key_ver) ==
    [i \in 1..16 |-> XorByte(new_key[i], old_key[i])] \o <<key_ver>>
        \o << crc32_ieee(new_key)[1] \div 256, crc32_ieee(new_key)[1] % 256,
               crc32_ieee(new_key)[2] \div 256, crc32_ieee(new_key)[2] % 256 >>

\* lines 919-926: key_data of change_key
ckey_data(old_key, new_key, key_ver) ==
    [i \in 1..16 |-> XorByte(new_key[i], old_key[i])] \o <<key_ver>>
        \o << crc32_ieee(new_key)[2] % 256, crc32_ieee(new_key)[2] \div 256,
               crc32_ieee(new_key)[1] % 256, crc32_ieee(new_key)[1] \div 256 >>

\* lines 928-932: key_data go out under INS 0xC4 with the key number as
\* header, into a 16-byte response buffer
change_key(c, s, key_no, old_key, new_key, key_ver, ev) ==
    ssm_cmd_full(c, s, 196, <<key_no>>,
                 ckey_data(old_key, new_key, key_ver), 16, ev)

\* lines 995-997
gsrc_done(x) ==
    [ret  |-> IF XchOk(x) /\ x.t.rlen >= 3 THEN 1 ELSE 0,
     card |-> x.card,
     counter |-> IF XchOk(x) /\ x.t.rlen >= 3
                 THEN read_u24_le(x.t.enc.cbc_pt, 0) ELSE 0,
     apdus |-> <<x.apdu>>, ts |-> <<x.t>>]

\* 90 F6 00 00 01 file_no 00
get_sdm_read_counter(c, file_no, ev) ==
    gsrc_done(Exchange(c, Apdu(246, 1, <<file_no>>, NoEnc, JunkMac, 0), ev))

\* an ISO APDU with command data: CLA 00, INS, P1, P2, Lc, data
IsoData(ins, p1, p2, data) ==
    [cla |-> 0, ins |-> ins, p1 |-> p1, p2 |-> p2, lc |-> Len(data),
     hdr |-> data, enc |-> NoEnc, mact |-> JunkMac, nmac |-> 0, le |-> 0]

\* select_ndef_app, select_file(0xE104) and the UPDATE BINARY of each
\* chunk of at most 255 bytes
WriteApdus(data) ==
    << IsoData(164, 4, 0, <<210, 118, 0, 0, 133, 1, 1>>),
       IsoData(164, 0, 12, <<225, 4>>) >> \o
    [k \in 1..((Len(data) + 254) \div 255) |->
        IsoData(214, (((k - 1) * 255) \div 256) % 256, ((k - 1) * 255) % 256,
                Slice(data, (k - 1) * 255,
                      IF Len(data) - (k - 1) * 255 > 255 THEN 255
                      ELSE Len(data) - (k - 1) * 255))]

RECURSIVE iso_seq(_, _, _, _, _)
RECURSIVE iso_step(_, _, _, _, _)
\* x: the exchange of the i-th APDU; ts: what transmit returned so far
iso_step(apdus, evs, i, ts, x) ==
    IF ~XchOk(x)
    THEN [ret |-> 0, card |-> x.card, apdus |-> SubSeq(apdus, 1, i),
          ts |-> Append(ts, x.t)]
    ELSE iso_seq(x.card, apdus, evs, i + 1, Append(ts, x.t))

\* the APDUs one after the other, to the first that fails
iso_seq(c, apdus, evs, i, ts) ==
    IF i > Len(apdus)
    THEN [ret |-> 1, card |-> c, apdus |-> apdus, ts |-> ts]
    ELSE iso_step(apdus, evs, i, ts, Exchange(c, apdus[i], evs[i]))

\* evs: what happens to each exchange, if it comes to it
write_ndef_file_plain(c, data, evs) ==
    iso_seq(c, WriteApdus(data), evs, 1, <<>>)

(***************************************************************************)
(* build_sdm_ndef; a string is the sequence of its character codes         *)
(***************************************************************************)
SDM_UID_LEN_ASCII == 14

SDM_CTR_LEN_ASCII == 6

SDM_MAC_LEN_ASCII == 16

\* sizeof(out->url)
UrlSize == 512

\* the strings of the function, as character codes
\* "https://www."
HttpsWww ==
    <<104, 116, 116, 112, 115, 58, 47, 47, 119, 119, 119, 46>>

\* "http://www."
HttpWww ==
    <<104, 116, 116, 112, 58, 47, 47, 119, 119, 119, 46>>

Https == <<104, 116, 116, 112, 115, 58, 47, 47>>  \* "https://"

Http == <<104, 116, 116, 112, 58, 47, 47>>  \* "http://"

UidKey == <<117, 105, 100, 61>>  \* "uid="

CtrKey == <<99, 116, 114, 61>>  \* "ctr="

MacKey == <<109, 97, 99, 61>>  \* "mac="

\* n times the byte v
Rep(v, n) == [i \in 1..n |-> v]

\* buf[pos .. pos + Len(needle) - 1] is needle (pos 0-based)
MatchAt(buf, needle, pos) ==
    \A k \in 1..Len(needle) : buf[pos + k] = needle[k]

\* find_substr that reports the position after the one it found
find_substr_one_on(buf, needle) ==
    LET hits == { i \in 0..(Len(buf) - Len(needle)) :
                     MatchAt(buf, needle, i) }
    IN  IF Len(needle) = 0 \/ Len(needle) > Len(buf) \/ hits = {}
        THEN [ok |-> FALSE, pos |-> 0]
        ELSE [ok |-> TRUE,
              pos |-> 1 + CHOOSE i \in hits : \A j \in hits : i <= j]

\* the first position where needle occurs in buf, or none
find_substr(buf, needle) ==
    LET hits == { i \in 0..(Len(buf) - Len(needle)) :
                     MatchAt(buf, needle, i) }
    IN  IF Len(needle) = 0 \/ Len(needle) > Len(buf) \/ hits = {}
        THEN [ok |-> FALSE, pos |-> 0]
        ELSE [ok |-> TRUE,
              pos |-> CHOOSE i \in hits : \A j \in hits : i <= j]

\* strncmp(url, prefix, strlen(prefix)) == 0
HasPrefix(url, prefix) ==
    Len(url) >= Len(prefix) /\ MatchAt(url, prefix, 0)

\* "https://www.", "http://www.", "https://", "http://" and their codes,
\* in the order of the table
prefixes ==
    << [prefix |-> HttpsWww, code |-> 2],
       [prefix |-> HttpWww, code |-> 1],
       [prefix |-> Https, code |-> 4],
       [prefix |-> Http, code |-> 3] >>

\* return 0: *out is as memset left it
bsn_fail ==
    [ret |-> 0, ndef |-> <<>>, ndef_len |-> 0, uid_offset |-> 0,
     ctr_offset |-> 0, mac_input_offset |-> 0, mac_offset |-> 0]

\* n bytes of buf from offset off on are all '0'
AllZeroDigits(buf, off, n) == \A i \in 1..n : buf[off + i] = 48

\* lines 326-361 without the loops of lines 337-354
bsn_check_no_digits(ndef, uid_key_pos, ctr_key_pos, mac_key_pos) ==
    IF \/ uid_key_pos + 4 + SDM_UID_LEN_ASCII > Len(ndef)
       \/ ctr_key_pos + 4 + SDM_CTR_LEN_ASCII > Len(ndef)
       \/ mac_key_pos + 4 + SDM_MAC_LEN_ASCII > Len(ndef)
    THEN bsn_fail
    ELSE [ret |-> 1, ndef |-> ndef, ndef_len |-> Len(ndef),
          uid_offset |-> uid_key_pos + 4,
          ctr_offset |-> ctr_key_pos + 4,
          mac_input_offset |-> uid_key_pos,
          mac_offset |-> mac_key_pos + 4]

\* lines 326-361: the offsets, the bounds, the placeholders
bsn_check(ndef, uid_key_pos, ctr_key_pos, mac_key_pos) ==
    IF \/ uid_key_pos + 4 + SDM_UID_LEN_ASCII > Len(ndef)
       \/ ctr_key_pos + 4 + SDM_CTR_LEN_ASCII > Len(ndef)
       \/ mac_key_pos + 4 + SDM_MAC_LEN_ASCII > Len(ndef)
    THEN bsn_fail
    ELSE IF \/ ~AllZeroDigits(ndef, uid_key_pos + 4, SDM_UID_LEN_ASCII)
            \/ ~AllZeroDigits(ndef, ctr_key_pos + 4, SDM_CTR_LEN_ASCII)
            \/ ~AllZeroDigits(ndef, mac_key_pos + 4, SDM_MAC_LEN_ASCII)
    THEN bsn_fail
    ELSE [ret |-> 1, ndef |-> ndef, ndef_len |-> Len(ndef),
          uid_offset |-> uid_key_pos + 4,
          ctr_offset |-> ctr_key_pos + 4,
          mac_input_offset |-> uid_key_pos,
          mac_offset |-> mac_key_pos + 4]

\* lines 318-324: "uid=", "ctr=", "mac=" looked for in the whole message
bsn_find(ndef, u, c, m) ==
    IF ~u.ok \/ ~c.ok \/ ~m.ok THEN bsn_fail
    ELSE bsn_check(ndef, u.pos, c.pos, m.pos)

\* lines 297-316: the lengths and the NDEF message
bsn_record(prefix_code, uri, ndef) ==
    IF Len(uri) > 255 THEN bsn_fail
    ELSE IF 1 + Len(uri) > 255 THEN bsn_fail
    ELSE IF 2 + 4 + 1 + Len(uri) > 256 THEN bsn_fail
    ELSE bsn_find(ndef, find_substr(ndef, UidKey),
                  find_substr(ndef, CtrKey),
                  find_substr(ndef, MacKey))

\* NdefMessage with the low byte of the length first
NdefMessage_len_le(prefix_code, uri) ==
    << (4 + 1 + Len(uri)) % 256, ((4 + 1 + Len(uri)) \div 256) % 256,
       209, 1, (1 + Len(uri)) % 256, 85, prefix_code >> \o uri

\* NLEN (2 bytes), D1 01 payload_len 55 prefix_code, uri
NdefMessage(prefix_code, uri) ==
    << ((4 + 1 + Len(uri)) \div 256) % 256, (4 + 1 + Len(uri)) % 256,
       209, 1, (1 + Len(uri)) % 256, 85, prefix_code >> \o uri

RECURSIVE bsn_prefix(_, _)
\* lines 285-295: the first prefix of the table that the URL starts with
bsn_prefix(url, i) ==
    IF i > Len(prefixes)
    THEN bsn_record(0, url, NdefMessage(0, url))
    ELSE IF HasPrefix(url, prefixes[i].prefix)
    THEN bsn_record(prefixes[i].code,
                    SubSeq(url, Len(prefixes[i].prefix) + 1, Len(url)),
                    NdefMessage(prefixes[i].code,
                        SubSeq(url, Len(prefixes[i].prefix) + 1, Len(url))))
    ELSE bsn_prefix(url, i + 1)

\* url: what "%s?uid=%s&ctr=%s&mac=%s" prints, n its length
bsn_url(url) ==
    IF Len(url) <= 0 \/ Len(url) >= UrlSize THEN bsn_fail
    ELSE bsn_prefix(url, 1)

build_sdm_ndef(base_url) ==
    bsn_url(base_url \o <<63>> \o UidKey \o Rep(48, SDM_UID_LEN_ASCII)
                     \o <<38>> \o CtrKey \o Rep(48, SDM_CTR_LEN_ASCII)
                     \o <<38>> \o MacKey \o Rep(48, SDM_MAC_LEN_ASCII))

(***************************************************************************)
(* Inputs                                                                  *)
(***************************************************************************)
\* long-term keys the caller may hold: the card's, and another one
Keys == { Block(Zero(16)), Block([i \in 1..16 |-> i]) }

\* uint8_t key_no values passed in
KeyNos == {0, 1}

\* uint8_t key_no values above 0x0F (argv[3] of main, unchecked)
HighKeyNos == {16, 255}

RndAs == { [i \in 1..16 |-> 17 * (i - 1)] }

RndBs == { <<202, 254, 186, 190, 222, 173, 190, 239,
             1, 35, 69, 103, 137, 171, 205, 239>> }

\* what happens to one exchange (fate) and what the card chooses in it
Ev(fate, rndB, sw2, data) ==
    [fate |-> fate, rnd |-> [rndB |-> rndB, sw2 |-> sw2, data |-> data]]

AuthFates == {"ok", "lost_cmd", "lost_rsp", "runt", "bad_sw", "no_body",
              "bad_enc", "alt_byte4", "alt_byte19", "alt_byte20",
              "wrong_le"}

AuthEvent(f) == Ev(f, CHOOSE rb \in RndBs : TRUE, 0, <<>>)

\* the fates of the two exchanges of a handshake: the second one matters
\* only when the first one went through
AuthFatePairs ==
    { <<f, "ok">> : f \in AuthFates } \cup { <<"ok", f>> : f \in AuthFates }

\* key, key_no and the fates of a handshake: every fate with the card's
\* key and key number 0, and every key and key number on an undisturbed
\* line
AuthInputs ==
    { <<Block(Zero(16)), 0, fp>> : fp \in AuthFatePairs } \cup
    { <<k, n, <<"ok", "ok">> >> : k \in Keys, n \in KeyNos \cup HighKeyNos }

\* wrapped commands: INS, header, data, capacity of the caller's buffer
Cmds == {245}

Hdrs == { <<2>> }

Datas == { <<>>, Zero(21), Zero(241) }

OutCaps == {16}

\* the card's answers: status byte SW2 and response data
CardAnswers ==
    { <<0, <<>> >>, <<0, <<7, 0, 0, 0, 0>> >>, <<0, [i \in 1..17 |-> i]>>,
      <<126, <<>> >> }

SsmFates == {"ok", "lost_rsp", "runt", "bad_sw", "flip_sw2", "no_body",
             "bad_mac", "bad_enc", "wrong_le"}

SsmEvents ==
    { Ev("lost_cmd", <<>>, 0, <<>>) } \cup
    { Ev(f, <<>>, a[1], a[2]) : f \in SsmFates, a \in CardAnswers }

\* command data and event of a wrapped command: every event with an empty
\* command, and the other commands on an undisturbed line
SsmInputs ==
    { << <<>>, ev >> : ev \in SsmEvents } \cup
    { <<d, Ev("ok", <<>>, 0, <<>>)>> : d \in Datas }

\* READ BINARY: what the file holds at the offset, and the fates of the two
\* exchanges; there is a second one only after the card said 6CXX
FileBytes == { <<0, 5>>, <<209, 1, 1, 85, 4>> }

RbFates == {"ok", "lost_cmd", "runt", "bad_sw", "no_body", "wrong_le"}

RbFatePairs ==
    { <<f, "ok">> : f \in RbFates } \cup { <<"wrong_le", f>> : f \in RbFates }

RbOffsets == {0, 2}

RbLes == {2, 15}

\* commands about the largest Lc: header and data on an undisturbed line
\* (the data pad to 240 and 256 bytes)
LongCmds ==
    { <<h, d>> : h \in {Zero(7), Zero(8)}, d \in {Zero(239), Zero(241)} }

(***************************************************************************)
(* State machine                                                           *)
(***************************************************************************)
\* last: the call that ended last (op, ret, the session object before it,
\* its key / key_no / out_cap / cmd / hdr / data argument, the RndA it drew, the APDUs
\* it transmitted and what transmit returned for each, the decrypted
\* second handshake response, the plaintext handed out).
\* nSucc: successful wrapped exchanges since the last successful handshake.
NoCall ==
    [op |-> "none", ret |-> 0, pre |-> ZeroSession, key_no |-> 0,
     out_cap |-> 0, t |-> transmit(TransportError, MAX_APDU, 0),
     dec |-> <<>>, sent |-> 0, out |-> <<>>, apdus |-> <<>>, ts |-> <<>>,
     hdr |-> <<>>, data |-> <<>>, rnd |-> <<>>, cmd |-> 0,
                    key |-> Block(Zero(16))]

Init ==
    /\ sess = ZeroSession
    /\ card = CardInit
    /\ last = NoCall
    /\ nSucc = 0

\* ssm_session_t sess; memset(&sess, 0, sizeof(sess)) in main
NewSession ==
    /\ sess # ZeroSession
    /\ sess' = ZeroSession
    /\ last' = [NoCall EXCEPT !.op = "new", !.pre = sess]
    /\ nSucc' = 0
    /\ UNCHANGED card

AuthCall(key, key_no, rndA, ev1, ev2) ==
    \E r \in {authenticate_ev2_first(card, key, key_no, sess, rndA, ev1, ev2)} :
        /\ sess' = r.sess
        /\ card' = r.card
        /\ last' = [op |-> "auth", ret |-> r.ret, pre |-> sess,
                    key_no |-> key_no, out_cap |-> 0, t |-> r.t,
                    dec |-> r.dec, sent |-> r.sent, out |-> <<>>,
                    apdus |-> r.apdus, ts |-> r.ts,
                    hdr |-> <<>>, data |-> <<>>, rnd |-> rndA, cmd |-> 0,
                    key |-> key]
        /\ nSucc' = IF r.ret = 1 THEN 0 ELSE nSucc

SsmCall(cmd, hdr, data, out_cap, ev) ==
    \E r \in {ssm_cmd_full(card, sess, cmd, hdr, data, out_cap, ev)} :
        /\ sess' = r.sess
        /\ card' = r.card
        /\ last' = [op |-> "ssm", ret |-> r.ret, pre |-> sess,
                    key_no |-> 0, out_cap |-> out_cap, t |-> r.t,
                    dec |-> <<>>, sent |-> r.sent, out |-> r.out,
                    apdus |-> r.apdus, ts |-> r.ts,
                    hdr |-> hdr, data |-> data, rnd |-> <<>>, cmd |-> cmd,
                    key |-> Block(Zero(16))]
        /\ nSucc' = IF r.ret = 1 THEN nSucc + 1 ELSE nSucc

RbCall(offset, le, ev1, ev2) ==
    \E r \in {read_binary(card, offset, le, ev1, ev2)} :
        /\ card' = r.card
        /\ last' = [op |-> "rb", ret |-> r.ret, pre |-> sess,
                    key_no |-> 0, out_cap |-> 0, t |-> r.t,
                    dec |-> <<>>, sent |-> r.sent, out |-> r.out,
                    apdus |-> r.apdus, ts |-> r.ts,
                    hdr |-> <<>>, data |-> <<>>, rnd |-> <<>>, cmd |-> 0,
                    key |-> Block(Zero(16))]
        /\ UNCHANGED <<sess, nSucc>>

\* main reads the NDEF file before it opens any session
ReadBinary ==
    /\ last.op \in {"none", "rb"}
    /\ \E offset \in RbOffsets, le \in RbLes, fp \in RbFatePairs,
          b \in FileBytes :
        RbCall(offset, le, Ev(fp[1], <<>>, 0, b), Ev(fp[2], <<>>, 0, b))

Authenticate ==
    \E in \in AuthInputs, rndA \in RndAs :
        AuthCall(in[1], in[2], rndA, AuthEvent(in[3][1]), AuthEvent(in[3][2]))

SsmCmdFull ==
    /\ sess.cmd_ctr < MaxCtr
    /\ card.ctr < MaxCtr
    /\ \/ \E cmd \in Cmds, hdr \in Hdrs, out_cap \in OutCaps,
             in \in SsmInputs :
            SsmCall(cmd, hdr, in[1], out_cap, in[2])
       \/ \E cmd \in Cmds, out_cap \in OutCaps, in \in LongCmds :
            SsmCall(cmd, in[1], in[2], out_cap, Ev("ok", <<>>, 0, <<>>))

Next == NewSession \/ ReadBinary \/ Authenticate \/ SsmCmdFull

Spec == Init /\ [][Next]_vars

(***************************************************************************)
(* A long run on one card: every handshake and every exchange goes         *)
(* through, or the command is lost before it reaches the card              *)
(***************************************************************************)
AuthenticateW ==
    /\ sess.authenticated = 0
    /\ \E rndA \in RndAs :
        AuthCall(Block(Zero(16)), 0, rndA, AuthEvent("ok"), AuthEvent("ok"))

SsmCmdFullW ==
    /\ nSucc < WrapLimit
    /\ \E f \in {"ok", "lost_cmd"} :
        SsmCall(245, <<2>>, <<>>, 16, Ev(f, <<>>, 0, <<>>))

NextWrap == AuthenticateW \/ SsmCmdFullW

SpecWrap == Init /\ [][NextWrap]_vars

(***************************************************************************)
(* Padding on its own: a byte string is padded, then unpadded              *)
(***************************************************************************)
MaxPadLen == 256

\* byte strings of length n: zeros, 0x80s, a count, a text that ends in
\* 0x80 and one that ends in 0x80 0x00
PadInputs(n) ==
    { Zero(n),
      [i \in 1..n |-> 128],
      [i \in 1..n |-> i % 256],
      [i \in 1..n |-> IF i = n THEN 128 ELSE 65],
      [i \in 1..n |-> IF i = n THEN 0 ELSE IF i = n - 1 THEN 128 ELSE 65] }

InitPad ==
    /\ sess = ZeroSession
    /\ card = CardInit
    /\ nSucc = 0
    /\ \E n \in 0..MaxPadLen : \E d \in PadInputs(n) :
          last = [op |-> "input", data |-> d, padded |-> <<>>, n |-> 0]

Pad ==
    /\ last.op = "input"
    /\ last' = [last EXCEPT !.op = "padded",
                            !.padded = pad_iso9797_m2(last.data)]
    /\ UNCHANGED <<sess, card, nSucc>>

Unpad ==
    /\ last.op = "padded"
    /\ last' = [last EXCEPT !.op = "unpadded",
                            !.n = unpad_iso9797_m2(last.padded,
                                                   Len(last.padded))]
    /\ UNCHANGED <<sess, card, nSucc>>

NextPad == Pad \/ Unpad

SpecPad == InitPad /\ [][NextPad]_vars

(***************************************************************************)
(* File settings on their own: the data are built, then parsed            *)
(***************************************************************************)
\* the arguments of change_file_settings_sdm: communication mode, access
\* rights, SDM options, the three SDM access nibbles (some wider than a
\* nibble), UID offset
FsInputs ==
    [cm : {0, 3, 7}, ar1 : {64, 224}, ar2 : {238},
     opts : {0, 128, 193, 209, 225, 241},
     meta : {14, 15, 2, 5, 30}, file : {15, 1, 31}, ctr : {15, 1, 17},
     u : {32, 74565}, c : {53}, mi : {64}, m : {67}]

\* a GetFileSettings response that tells the settings of the data d:
\* FileType and FileSize are where lines 804-808 read them
AsResponse(file_type, file_size, d) ==
    <<file_type>> \o Slice(d, 0, 3) \o write_u24_le(file_size)
        \o Slice(d, 3, Len(d) - 3)

\* session and card as a handshake that went through leaves them (main
\* calls change_file_settings_sdm right after one)
AfterHandshake ==
    authenticate_ev2_first(CardInit, CardKey, 0, ZeroSession,
                           CHOOSE a \in RndAs : TRUE,
                           AuthEvent("ok"), AuthEvent("ok"))

InitFs ==
    /\ sess = AfterHandshake.sess
    /\ card = AfterHandshake.card
    /\ nSucc = 0
    /\ \E in \in FsInputs :
          last = [op |-> "input", in |-> in, data |-> <<>>,
                  ret |-> 0, info |-> NoInfo, pre |-> ZeroSession,
                  file_no |-> 0, apdus |-> <<>>]

\* change_file_settings_sdm; data: the command data of lines 945-979
BuildFs ==
    /\ last.op = "input"
    /\ \E file_no \in {2, 3} :
       \E r \in {change_file_settings_sdm(card, sess, file_no,
                     last.in.cm, last.in.ar1, last.in.ar2,
                     last.in.opts, last.in.meta, last.in.file,
                     last.in.ctr, last.in.u, last.in.c,
                     last.in.mi, last.in.m, Ev("ok", <<>>, 0, <<>>))} :
          /\ sess' = r.sess
          /\ card' = r.card
          /\ last' = [last EXCEPT
                        !.op = "built",
                        !.data = cfs_data(last.in.cm, last.in.ar1, last.in.ar2,
                                          last.in.opts, last.in.meta,
                                          last.in.file, last.in.ctr, last.in.u,
                                          last.in.c, last.in.mi, last.in.m),
                        !.pre = sess,
                        !.file_no = file_no,
                        !.apdus = r.apdus]
    /\ UNCHANGED nSucc

\* parse_file_settings on the data as built
ParseData ==
    /\ last.op = "built"
    /\ \E r \in {parse_file_settings(last.data)} :
          last' = [last EXCEPT !.op = "parsed_data",
                               !.ret = r.ret, !.info = r.info]
    /\ UNCHANGED <<sess, card, nSucc>>

\* parse_file_settings on the response of a card that took the settings
ParseResponse ==
    /\ last.op = "built"
    /\ \E ft \in {0}, size \in {256, 0} :
        \E r \in {parse_file_settings(AsResponse(ft, size, last.data))} :
          last' = [last EXCEPT !.op = "parsed_response",
                               !.ret = r.ret, !.info = r.info]
    /\ UNCHANGED <<sess, card, nSucc>>

NextFs == BuildFs \/ ParseData \/ ParseResponse

SpecFs == InitFs /\ [][NextFs]_vars

(***************************************************************************)
(* build_sdm_ndef on its own                                               *)
(***************************************************************************)
MaxHostLen == 12

\* "example.com/tap"
ExampleTap ==
    <<101, 120, 97, 109, 112, 108, 101, 46, 99, 111, 109, 47, 116, 97, 112>>

\* what follows the scheme in a base URL: hosts of a's, long ones about
\* the largest message and the largest url, and ones that hold the
\* keys "uid=", "ctr=", "mac=" themselves
UrlBodies ==
    { Rep(97, n) : n \in 0..MaxHostLen } \cup
    { Rep(97, n) : n \in {197, 198, 199, 205, 206, 460, 461} } \cup
    { <<97, 63>> \o UidKey \o <<49>>,
      <<97, 63>> \o UidKey \o Rep(48, 14),
      <<97, 63>> \o UidKey \o Rep(48, 13),
      <<97, 63>> \o CtrKey \o <<55>>,
      <<97, 63>> \o MacKey \o Rep(48, 16) \o <<38>> \o CtrKey \o Rep(48, 6),
      <<97, 63>> \o MacKey,
      ExampleTap }

\* how a base URL starts: the four prefixes, nothing, "ftp://"
UrlSchemes ==
    { HttpsWww, HttpWww, Https, Http, <<>>, <<102, 116, 112, 58, 47, 47>> }

InitNdef ==
    /\ sess = ZeroSession
    /\ card = CardInit
    /\ nSucc = 0
    /\ \E p \in UrlSchemes, b \in UrlBodies :
          last = [op |-> "input", base_url |-> p \o b, out |-> bsn_fail]

BuildSdmNdef ==
    /\ last.op = "input"
    /\ last' = [last EXCEPT !.op = "built",
                            !.out = build_sdm_ndef(last.base_url)]
    /\ UNCHANGED <<sess, card, nSucc>>

NextNdef == BuildSdmNdef

SpecNdef == InitNdef /\ [][NextNdef]_vars

(***************************************************************************)
(* main, from the first GetFileSettings on, run without provisioning and   *)
(* key rotation: key 0 is 16 zero bytes, counter_file_no is 2.  Here last  *)
(* holds main's position and locals, and log the calls made so far (what,  *)
(* return value, the APDUs transmitted and what transmit returned).        *)
(***************************************************************************)
counter_file_no == 2

\* what a card may answer to a plain GetFileSettings: settings that parse,
\* bytes that do not, a refusal (91AE); or the response is lost
PlainEvents ==
    { Ev("ok", <<>>, 0, <<0, 0, 224, 238, 0, 1, 0>>),
      Ev("ok", <<>>, 0, <<0, 64, 224>>),
      Ev("ok", <<>>, 174, <<>>),
      Ev("lost_rsp", <<>>, 0, <<>>) }

\* what may become of a wrapped command: accepted, refused by the card
\* with an authenticated status (919E), or the response is lost
SecureEvents ==
    { Ev("ok", <<>>, 0, <<0, 0, 224, 238, 0, 1, 0>>),
      Ev("ok", <<>>, 158, <<>>),
      Ev("lost_rsp", <<>>, 0, <<>>) }

\* --sdm-url: the default, and one too long for an NDEF message
MainUrls == { Https \o ExampleTap, Https \o Rep(97, 199) }

MainKeyNos == {1, 16}

Logged(what, r) ==
    Append(last.log, [what |-> what, ret |-> r.ret,
                      apdus |-> r.apdus, ts |-> r.ts])

InitMain ==
    /\ sess = ZeroSession
    /\ card = CardInit
    /\ nSucc = 0
    /\ last = [pc |-> "fs1", fs_plain_failed |-> 0, fs_info |-> NoInfo,
               sdm |-> bsn_fail, sdm_key_no |-> 1, log |-> <<>>]

\* lines 1254-1268
GetFs1 ==
    /\ last.pc = "fs1"
    /\ \E ev \in PlainEvents :
       \E r \in {get_file_settings_plain(card, counter_file_no, 128, ev)} :
          /\ card' = r.card
          /\ last' = [last EXCEPT
                        !.pc = "setup",
                        !.fs_plain_failed = IF r.ret = 1 THEN 0 ELSE 1,
                        !.fs_info = IF r.ret = 1
                                    THEN parse_file_settings(r.out).info
                                    ELSE @,
                        !.log = Logged("fs_plain", r)]
    /\ UNCHANGED <<sess, nSucc>>

\* do_sdm_setup is 0
SkipSetup ==
    /\ last.pc = "setup"
    /\ last' = [last EXCEPT !.pc = "ctr"]
    /\ UNCHANGED <<sess, card, nSucc>>

\* lines 1378-1388
SetupBuild ==
    /\ last.pc = "setup"
    /\ \E k \in MainKeyNos, url \in MainUrls :
       \E r \in {build_sdm_ndef(url)} :
          last' = [last EXCEPT
                    !.pc = IF k > 15 \/ r.ret = 0 THEN "done"
                                                  ELSE "setup_auth",
                    !.sdm = IF k > 15 THEN @ ELSE r,
                    !.sdm_key_no = k,
                    !.log = IF k > 15 THEN @
                            ELSE Append(@, [what |-> "build", ret |-> r.ret,
                                            apdus |-> <<>>, ts |-> <<>>])]
    /\ UNCHANGED <<sess, card, nSucc>>

\* the handshake of lines 1393-1398 (to) and of lines 1453-1456
MainAuth(what, to) ==
    \E rndA \in RndAs, f \in {<<"ok", "ok">>, <<"ok", "bad_enc">>} :
    \E r \in {authenticate_ev2_first(card, Block(Zero(16)), 0, ZeroSession,
                                      rndA, AuthEvent(f[1]),
                                      AuthEvent(f[2]))} :
        /\ sess' = r.sess
        /\ card' = r.card
        /\ last' = [last EXCEPT !.pc = IF r.ret = 1 THEN to ELSE "done",
                                !.log = Logged(what, r)]
        /\ UNCHANGED nSucc

SetupAuth == last.pc = "setup_auth" /\ MainAuth("auth_cfg", "setup_cfs")

\* SetupChange that goes on to the NDEF write whatever the call returned
SetupChange_goes_on ==
    /\ last.pc = "setup_cfs"
    /\ \E ev \in SecureEvents :
       \E r \in {change_file_settings_sdm(card, sess, counter_file_no, 0,
                     IF last.fs_info.valid = 1 THEN last.fs_info.ar1 ELSE 224,
                     IF last.fs_info.valid = 1 THEN last.fs_info.ar2 ELSE 238,
                     193, 14, last.sdm_key_no, last.sdm_key_no,
                     last.sdm.uid_offset, last.sdm.ctr_offset,
                     last.sdm.mac_input_offset, last.sdm.mac_offset, ev)} :
          /\ sess' = r.sess
          /\ card' = r.card
          /\ last' = [last EXCEPT
                        !.pc = "setup_write",
                        !.log = Logged("cfs", r)]
    /\ UNCHANGED nSucc

\* lines 1400-1415
SetupChange ==
    /\ last.pc = "setup_cfs"
    /\ \E ev \in SecureEvents :
       \E r \in {change_file_settings_sdm(card, sess, counter_file_no, 0,
                     IF last.fs_info.valid = 1 THEN last.fs_info.ar1 ELSE 224,
                     IF last.fs_info.valid = 1 THEN last.fs_info.ar2 ELSE 238,
                     193, 14, last.sdm_key_no, last.sdm_key_no,
                     last.sdm.uid_offset, last.sdm.ctr_offset,
                     last.sdm.mac_input_offset, last.sdm.mac_offset, ev)} :
          /\ sess' = r.sess
          /\ card' = r.card
          /\ last' = [last EXCEPT
                        !.pc = IF r.ret = 1 THEN "setup_write" ELSE "done",
                        !.log = Logged("cfs", r)]
    /\ UNCHANGED nSucc

\* lines 1417-1424; k: the exchange that fails, if any
SetupWrite ==
    /\ last.pc = "setup_write"
    /\ \E k \in 0..Len(WriteApdus(last.sdm.ndef)) :
       \E r \in {write_ndef_file_plain(card, last.sdm.ndef,
                     [i \in 1..Len(WriteApdus(last.sdm.ndef)) |->
                        Ev(IF i = k THEN "bad_sw" ELSE "ok", <<>>, 0, <<>>)])} :
          /\ card' = r.card
          /\ last' = [last EXCEPT
                        !.pc = IF r.ret = 1 THEN "setup_fs2" ELSE "done",
                        !.log = Logged("write", r)]
    /\ UNCHANGED <<sess, nSucc>>

\* lines 1431-1442, after the plain attempt r1 failed
SetupFs2Secure(r1) ==
    \E ev \in SecureEvents :
    \E r \in {get_file_settings_secure(r1.card, sess, counter_file_no,
                                       128, ev)} :
        /\ sess' = r.sess
        /\ card' = r.card
        /\ last' = [last EXCEPT
                      !.pc = "ctr",
                      !.fs_info = IF r.ret = 1
                                  THEN parse_file_settings(r.out).info
                                  ELSE @,
                      !.log = Append(Logged("fs_plain", r1),
                                     [what |-> "fs_secure", ret |-> r.ret,
                                      apdus |-> r.apdus, ts |-> r.ts])]

\* lines 1426-1444
SetupFs2 ==
    /\ last.pc = "setup_fs2"
    /\ \E ev \in PlainEvents :
       \E r \in {get_file_settings_plain(card, counter_file_no, 128, ev)} :
          IF r.ret = 1
          THEN /\ card' = r.card
               /\ last' = [last EXCEPT
                             !.pc = "ctr",
                             !.fs_info = parse_file_settings(r.out).info,
                             !.log = Logged("fs_plain", r)]
               /\ UNCHANGED sess
          ELSE SetupFs2Secure(r)
    /\ UNCHANGED nSucc

\* lines 1446-1451
GetCtr ==
    /\ last.pc = "ctr"
    /\ \E ev \in { Ev("ok", <<>>, 0, <<5, 0, 0>>),
                    Ev("ok", <<>>, 174, <<>>) } :
       \E r \in {get_sdm_read_counter(card, counter_file_no, ev)} :
          /\ card' = r.card
          /\ last' = [last EXCEPT !.pc = "auth",
                                  !.log = Logged("ctr_plain", r)]
    /\ UNCHANGED <<sess, nSucc>>

FinalAuth == last.pc = "auth" /\ MainAuth("auth", "fs3")

\* lines 1463-1474
FinalFs ==
    /\ last.pc = "fs3"
    /\ IF last.fs_plain_failed = 1
       THEN \E ev \in SecureEvents :
            \E r \in {get_file_settings_secure(card, sess, counter_file_no,
                                               128, ev)} :
               /\ sess' = r.sess
               /\ card' = r.card
               /\ last' = [last EXCEPT
                             !.pc = "ctr2",
                             !.fs_info = IF r.ret = 1
                                         THEN parse_file_settings(r.out).info
                                         ELSE @,
                             !.log = Logged("fs_secure", r)]
       ELSE /\ last' = [last EXCEPT !.pc = "ctr2"]
            /\ UNCHANGED <<sess, card>>
    /\ UNCHANGED nSucc

\* lines 1476-1489
FinalCtr ==
    /\ last.pc = "ctr2"
    /\ \E ev \in { Ev("ok", <<>>, 0, <<5, 0, 0>>),
                    Ev("lost_rsp", <<>>, 0, <<>>) } :
       \E r \in {ssm_cmd_full(card, sess, 246, <<counter_file_no>>, <<>>,
                               16, ev)} :
          /\ sess' = r.sess
          /\ card' = r.card
          /\ last' = [last EXCEPT !.pc = "done",
                                  !.log = Logged("ctr_secure", r)]
    /\ UNCHANGED nSucc

NextMain ==
    \/ GetFs1 \/ SkipSetup \/ SetupBuild \/ SetupAuth \/ SetupChange
    \/ SetupWrite \/ SetupFs2 \/ GetCtr \/ FinalAuth \/ FinalFs
    \/ FinalCtr

SpecMain == InitMain /\ [][NextMain]_vars

(***************************************************************************)
(* main, --provision and --rotate-key: handshake, then ChangeKey           *)
(***************************************************************************)
\* the target key number: in range (the key of the handshake among them),
\* and out of range
ChangeKeyNos == {0, 1, 2, 16}

\* old keys: all zeros (provisioning), or read from a file (rotation)
OldKeys == { Zero(16), [i \in 1..16 |-> i] }

NewKeys ==
    { Zero(16), [i \in 1..16 |-> 17 * (i - 1)], Rep(255, 16),
      [i \in 1..16 |-> (3 * i) % 256] }

\* what may become of ChangeKey: accepted, refused by the card with an
\* authenticated status (911E), a response with a wrong MAC, or none
KeyEvents ==
    { Ev("ok", <<>>, 0, <<>>), Ev("ok", <<>>, 30, <<>>),
      Ev("bad_mac", <<>>, 0, <<>>), Ev("lost_rsp", <<>>, 0, <<>>) }

InitKey ==
    /\ sess = ZeroSession
    /\ card = CardInit
    /\ nSucc = 0
    /\ last = [pc |-> "key_auth", key_no |-> 0, old_key |-> Zero(16),
               new_key |-> Zero(16), printed |-> "", log |-> <<>>]

\* lines 1277-1305 and 1322-1362: the key number is checked, the keys are
\* read, and the handshake runs on a fresh session
KeyAuth ==
    /\ last.pc = "key_auth"
    /\ \E k \in ChangeKeyNos, old \in OldKeys, new \in NewKeys,
          rndA \in RndAs, f \in {<<"ok", "ok">>, <<"ok", "bad_enc">>} :
       \E r \in {IF k > 15
                 THEN auth_fail(sess, card, <<>>,
                                <<transmit(TransportError, MAX_APDU, 0)>>,
                                <<>>)
                 ELSE authenticate_ev2_first(card, Block(Zero(16)), 0,
                          ZeroSession, rndA, AuthEvent(f[1]),
                          AuthEvent(f[2]))} :
          /\ sess' = r.sess
          /\ card' = r.card
          /\ last' = [last EXCEPT
                        !.pc = IF r.ret = 1 THEN "key_change" ELSE "done",
                        !.key_no = k, !.old_key = old, !.new_key = new,
                        !.printed = IF k > 15 THEN "key number"
                                    ELSE IF r.ret = 1 THEN ""
                                    ELSE "authentication failed",
                        !.log = IF k > 15 THEN @ ELSE Logged("auth", r)]
    /\ UNCHANGED nSucc

\* lines 1307-1312 and 1364-1368
KeyChange ==
    /\ last.pc = "key_change"
    /\ \E ev \in KeyEvents :
       \E r \in {change_key(card, sess, last.key_no, last.old_key,
                             last.new_key, 1, ev)} :
          /\ sess' = r.sess
          /\ card' = r.card
          /\ last' = [last EXCEPT
                        !.pc = "done",
                        !.printed = IF r.ret = 1 THEN "ChangeKey OK"
                                                 ELSE "ChangeKey failed",
                        !.log = Logged("change_key", r)]
    /\ UNCHANGED nSucc

NextKey == KeyAuth \/ KeyChange

SpecKey == InitKey /\ [][NextKey]_vars

(***************************************************************************)
(* The local buffers of ssm_cmd_full, for every length of header and data  *)
(***************************************************************************)
MaxDataLen == 520

HeaderLens == {0, 1, 7, 8, 16}

InitBuf ==
    /\ sess = ZeroSession
    /\ card = CardInit
    /\ nSucc = 0
    /\ \E h \in HeaderLens, d \in 0..MaxDataLen :
          last = [op |-> "input", cmd_header_len |-> h, cmd_data_len |-> d,
                  wrote |-> ssm_buffers(0, 0), outcome |-> ""]

\* the writes all stay inside: the call goes on as the code has it
SsmBuffersInside ==
    /\ last.op = "input"
    /\ \E w \in {ssm_buffers(last.cmd_header_len, last.cmd_data_len)} :
          /\ w.padded <= MAX_APDU /\ w.enc_data <= MAX_APDU
          /\ w.mac_input <= MAX_APDU /\ w.apdu <= MAX_APDU
          /\ last' = [last EXCEPT
                        !.op = "written", !.wrote = w,
                        !.outcome = IF w.rejected THEN "return 0"
                                                  ELSE "transmit"]
    /\ UNCHANGED <<sess, card, nSucc>>

\* a write runs past the end of a buffer: what follows is not defined (the
\* call may go on as written, or the process may stop)
SsmBuffersPast ==
    /\ last.op = "input"
    /\ \E w \in {ssm_buffers(last.cmd_header_len, last.cmd_data_len)} :
          /\ \/ w.padded > MAX_APDU \/ w.enc_data > MAX_APDU
             \/ w.mac_input > MAX_APDU \/ w.apdu > MAX_APDU
          /\ \E o \in {"return 0", "transmit", "abort"} :
                last' = [last EXCEPT !.op = "written", !.wrote = w,
                                     !.outcome = o]
    /\ UNCHANGED <<sess, card, nSucc>>

NextBuf == SsmBuffersInside \/ SsmBuffersPast

SpecBuf == InitBuf /\ [][NextBuf]_vars

(***************************************************************************)
(* parse_file_settings on its own, on responses of every length            *)
(***************************************************************************)
MaxFsLen == 32

\* a response in full: FileType, FileOption, access rights, FileSize, the
\* SDM options and access rights, and bytes that differ from place to place
FsResponse(file_option, sdm_options, sdm_meta, sdm_file) ==
    <<0, file_option, 224, 238, 0, 1, 0,
      sdm_options, 241, 16 * sdm_meta + sdm_file>>
        \o [i \in 1..(MaxFsLen - 10) |-> (7 * i) % 256]

InitParse ==
    /\ sess = ZeroSession
    /\ card = CardInit
    /\ nSucc = 0
    /\ \E fo \in {0, 64, 67}, o \in {0, 16, 32, 64, 128, 193, 241},
          meta \in {2, 4, 5, 14, 15}, file \in {1, 15}, len \in 0..MaxFsLen :
          last = [op |-> "input",
                  data |-> SubSeq(FsResponse(fo, o, meta, file), 1, len),
                  ret |-> 0, info |-> NoInfo, read |-> <<>>]

Parse ==
    /\ last.op = "input"
    /\ \E r \in {parse_file_settings(last.data)} :
          last' = [last EXCEPT !.op = "parsed", !.ret = r.ret,
                               !.info = r.info, !.read = r.read]
    /\ UNCHANGED <<sess, card, nSucc>>

NextParse == Parse

SpecParse == InitParse /\ [][NextParse]_vars

(***************************************************************************)
(* crc32_ieee on its own                                                   *)
(***************************************************************************)
MaxCrcLen == 24

\* keys and other byte strings: one byte repeated, a count, "123456789"
CrcInputs ==
    { Rep(v, n) : v \in {0, 1, 255}, n \in 0..MaxCrcLen } \cup
    { [i \in 1..n |-> (17 * (i - 1)) % 256] : n \in 1..MaxCrcLen } \cup
    { <<49, 50, 51, 52, 53, 54, 55, 56, 57>> }

InitCrc ==
    /\ sess = ZeroSession
    /\ card = CardInit
    /\ nSucc = 0
    /\ \E d \in CrcInputs : last = [op |-> "input", data |-> d, crc |-> <<0, 0>>]

Crc32 ==
    /\ last.op = "input"
    /\ last' = [last EXCEPT !.op = "crc", !.crc = crc32_ieee(last.data)]
    /\ UNCHANGED <<sess, card, nSucc>>

NextCrc == Crc32

SpecCrc == InitCrc /\ [][NextCrc]_vars

(***************************************************************************)
(* What the last call met                                                  *)
(***************************************************************************)
\* the last call was an ssm_cmd_full that transmitted its APDU
SsmSent == last.op = "ssm" /\ last.sent = 1

\* ... and transmit did not return SCARD_S_SUCCESS
SsmTransportFailed == SsmSent /\ last.t.rc # SCARD_S_SUCCESS

\* ... or the response came in with SW1 = 0x91 and 8 body bytes or more
SsmMacChecked ==
    /\ SsmSent
    /\ last.t.rc = SCARD_S_SUCCESS
    /\ last.t.sw \div 256 = 145
    /\ last.t.rlen >= 8

\* CMAC_t(KMAC, SW2 || CmdCtr + 1 || TI || ciphertext) under the session
\* the call was given
ExpectedRespMac ==
    cmac_truncate_8(aes_cmac(last.pre.kmac,
        MacMsg(last.t.sw % 256, (last.pre.cmd_ctr + 1) % CtrMod,
               last.pre.ti, <<>>, last.t.enc)))

SsmMacVerified == SsmMacChecked /\ last.t.mact = ExpectedRespMac

SsmMacMismatch == SsmMacChecked /\ last.t.mact # ExpectedRespMac

(***************************************************************************)
(* Properties                                                              *)
(***************************************************************************)
\* C1 (as stated): after a successful handshake, k successful exchanges
\* leave CmdCtr equal to k, for every k.
C1_CounterIsCount == sess.authenticated = 1 => sess.cmd_ctr = nSucc

\* C1 (amended): after a successful handshake, k successful exchanges
\* leave CmdCtr equal to k modulo 65536, which is k for k up to 65,535.
C1_CounterIsCountMod ==
    sess.authenticated = 1 => sess.cmd_ctr = nSucc % CtrMod

\* the 65,536th successful exchange of a session has just returned
C1_Witness ==
    /\ last.op = "ssm" /\ last.ret = 1
    /\ nSucc = CtrMod
    /\ last.pre.cmd_ctr = CtrMod - 1

\* C2 (as stated): when the response has SW1 = 0x91, 8 body bytes or more
\* and a MAC that verifies, the call succeeds and CmdCtr is one more than
\* before, whatever the response and the caller's output buffer.
C2_VerifiedAdvances ==
    (SsmMacVerified /\ last.pre.authenticated = 1) =>
        (last.ret = 1 /\ sess.cmd_ctr = last.pre.cmd_ctr + 1)

\* C3: when ssm_cmd_full returns failure, CmdCtr is what it was before
\* the call.
C3_FailureKeepsCounter ==
    (last.op = "ssm" /\ last.ret = 0) => sess.cmd_ctr = last.pre.cmd_ctr

\* a call on a session that had advanced failed on the response MAC
C3_Witness ==
    /\ SsmMacMismatch /\ last.ret = 0
    /\ last.pre.authenticated = 1 /\ last.pre.cmd_ctr > 0

\* C4 (as stated): when the recomputed response MAC differs from the one
\* received, the call fails and Authenticated is cleared.
C4_MismatchClearsAuthenticated ==
    SsmMacMismatch => (last.ret = 0 /\ sess.authenticated = 0)

\* C5 (as stated): when the transport fails during a call on an
\* authenticated session, Authenticated is cleared.
C5_TransportErrorClearsAuthenticated ==
    (SsmTransportFailed /\ last.pre.authenticated = 1) =>
        sess.authenticated = 0

\* C6: when the transport fails during ssm_cmd_full, every field of the
\* session has the value it had before the call.
C6_TransportErrorKeepsSession == SsmTransportFailed => sess = last.pre

\* the transport failed under a session that had advanced
C6_Witness ==
    /\ SsmTransportFailed
    /\ last.pre.authenticated = 1 /\ last.pre.cmd_ctr > 0

\* C7 (as stated): within one session CmdCtr never decreases, over any
\* number of calls.
C7_NeverDecreases ==
    [][sess.authenticated = 1 => sess'.cmd_ctr >= sess.cmd_ctr]_vars

\* C7 (amended): within one session CmdCtr never decreases, except that
\* the exchange that succeeds at 65,535 takes it to 0.
C7_NeverDecreasesButWrap ==
    [][sess.authenticated = 1 =>
         \/ sess'.cmd_ctr >= sess.cmd_ctr
         \/ sess.cmd_ctr = CtrMod - 1 /\ sess'.cmd_ctr = 0]_vars

\* a session past its 65,536th successful exchange
C7_Witness ==
    /\ sess.authenticated = 1
    /\ nSucc > CtrMod
    /\ last.op = "ssm" /\ last.ret = 1
    /\ sess.cmd_ctr > last.pre.cmd_ctr

\* C8 (as stated): between calls, an Authenticated session's CmdCtr
\* equals the counter of the card.
C8_CountersAgree == sess.authenticated = 1 => sess.cmd_ctr = card.ctr

\* C9 (as stated): when authenticate_ev2_first returns failure, the
\* session object is not Authenticated, whatever it held before.
C9_FailureLeavesNoSession ==
    (last.op = "auth" /\ last.ret = 0) => sess.authenticated = 0

\* C10: when authenticate_ev2_first returns success, CmdCtr = 0, TI is the
\* first 4 bytes of the decrypted second response, KeyNo is the key number
\* passed in and Authenticated is set.
C10_SuccessStoresSession ==
    (last.op = "auth" /\ last.ret = 1) =>
        /\ sess.cmd_ctr = 0
        /\ sess.ti = Slice(last.dec, 0, 4)
        /\ sess.key_no = last.key_no
        /\ sess.authenticated = 1

\* a handshake succeeded on an object that held a session with a non-zero
\* CmdCtr, another TI and another key number
C10_Witness ==
    /\ last.op = "auth" /\ last.ret = 1
    /\ last.pre.authenticated = 1 /\ last.pre.cmd_ctr > 0
    /\ last.pre.key_no # last.key_no
    /\ last.pre.ti # sess.ti

\* C11: authenticate_ev2_first sends at most two APDUs: first
\* 90 71 00 00 02 n 00 00; then 90 AF 00 00 20 E 00, only after a first
\* response of 16 body bytes with SW 0x91AF; and it succeeds only after a
\* second response of 32 body bytes with SW 0x9100.
C11_TwoApdusInOrder ==
    last.op = "auth" =>
        /\ Len(last.apdus) <= 2
        /\ Len(last.apdus) >= 1 =>
              /\ last.apdus[1].cla = 144 /\ last.apdus[1].ins = 113
              /\ last.apdus[1].p1 = 0 /\ last.apdus[1].p2 = 0
              /\ last.apdus[1].lc = 2
              /\ last.apdus[1].hdr = <<last.key_no, 0>>
              /\ CtLen(last.apdus[1].enc) = 0 /\ last.apdus[1].nmac = 0
              /\ last.apdus[1].le = 0
        /\ Len(last.apdus) = 2 =>
              /\ last.ts[1].rc = SCARD_S_SUCCESS
              /\ last.ts[1].sw = 37295 /\ last.ts[1].rlen = 16
              /\ last.apdus[2].cla = 144 /\ last.apdus[2].ins = 175
              /\ last.apdus[2].p1 = 0 /\ last.apdus[2].p2 = 0
              /\ last.apdus[2].lc = 32 /\ last.apdus[2].hdr = <<>>
              /\ CtLen(last.apdus[2].enc) = 32 /\ last.apdus[2].nmac = 0
              /\ last.apdus[2].le = 0
        /\ last.ret = 1 =>
              /\ Len(last.apdus) = 2
              /\ last.ts[2].rc = SCARD_S_SUCCESS
              /\ last.ts[2].sw = 37120 /\ last.ts[2].rlen = 32

\* a handshake stopped after a first response with SW 0x91AF and no body
C11_Witness ==
    /\ last.op = "auth" /\ last.ret = 0
    /\ Len(last.apdus) = 1
    /\ last.ts[1].rc = SCARD_S_SUCCESS
    /\ last.ts[1].sw = 37295 /\ last.ts[1].rlen # 16

\* the second response of the last handshake was decrypted
AuthDecrypted ==
    /\ last.op = "auth" /\ Len(last.ts) = 2
    /\ last.ts[2].rc = SCARD_S_SUCCESS
    /\ last.ts[2].sw = 37120 /\ last.ts[2].rlen = 32

\* bytes 4..19 of the decrypted second response, rotated right by one
\* byte, are the RndA that was sent
RndAEchoed ==
    \A i \in 1..16 :
        last.rnd[i] = last.dec[4 + (IF i = 1 THEN 16 ELSE i - 1)]

\* C12: authenticate_ev2_first succeeds only if bytes 4..19 of the
\* decrypted second response, rotated right by one byte, equal RndA; with
\* any other bytes there the call fails and writes no session.
C12_RndACheck ==
    AuthDecrypted =>
        /\ last.ret = 1 => RndAEchoed
        /\ ~RndAEchoed => (last.ret = 0 /\ sess = last.pre)

\* the second response differed from the expected one in byte 19 only
C12_Witness ==
    /\ AuthDecrypted /\ last.ret = 0
    /\ \A i \in 2..16 : last.rnd[i] = last.dec[3 + i]
    /\ last.rnd[1] # last.dec[20]

\* the i-th APDU of the last call was answered with SW 0x6CXX
WrongLe(i) ==
    /\ last.ts[i].rc = SCARD_S_SUCCESS
    /\ last.ts[i].sw \div 256 = 108

\* APDUs that differ in Le at most
SameButLe(a, b) == [a EXCEPT !.le = 0] = [b EXCEPT !.le = 0]

\* the i-th APDU of the last call is the one before it, sent again
IsRetry(i) == i > 1 /\ SameButLe(last.apdus[i - 1], last.apdus[i])

\* C13: whenever the card answers an APDU of any command with SW 0x6CXX,
\* the same APDU is sent again with Le = XX, and the caller gets the
\* response to that one.
C13_WrongLeRetried ==
    \A i \in 1..Len(last.ts) :
        (WrongLe(i) /\ ~IsRetry(i)) =>
            /\ Len(last.apdus) = i + 1
            /\ last.apdus[i + 1] =
                   [last.apdus[i] EXCEPT !.le = last.ts[i].sw % 256]
            /\ last.t = last.ts[i + 1]

\* C14: an operation transmits a given APDU at most twice, the second
\* time right after an answer of SW 0x6CXX to the first; nothing else
\* (a second 0x6CXX, another SW, a failed MAC, a transport error) makes
\* it transmit the APDU again.
C14_AtMostTwice ==
    \A i \in 1..Len(last.apdus) :
        /\ Cardinality({ k \in 1..Len(last.apdus) :
                            SameButLe(last.apdus[k], last.apdus[i]) }) <= 2
        /\ IsRetry(i) => WrongLe(i - 1)

\* a READ BINARY answered with SW 0x6CXX twice: sent twice, then given up
C14_Witness ==
    /\ last.op = "rb" /\ last.ret = 0
    /\ Len(last.apdus) = 2
    /\ IsRetry(2)
    /\ WrongLe(1) /\ WrongLe(2)

\* the ciphertext c with bit n of its byte at index i flipped: under the
\* same key and IV it decrypts to other bytes in the block of i (other
\* ones for each i and n), and to the same bit flipped in the block after
FlipCt(c, i, n) ==
    CbcText(c.cbc_key, c.cbc_iv,
            [k \in 1..Len(c.cbc_pt) |->
                IF (k - 1) \div 16 = (i - 1) \div 16
                THEN (c.cbc_pt[k] + 1 + 8 * ((i - 1) % 16) + n) % 256
                ELSE IF k = i + 16 THEN XorByte(c.cbc_pt[k], 2 ^ n)
                ELSE c.cbc_pt[k]])

\* what transmit returned, t, with one bit of SW2 or of the ciphertext
\* flipped and the MAC bytes kept
OneBitOff(t) ==
    { [t EXCEPT !.sw = (@ \div 256) * 256 + XorByte(@ % 256, 2 ^ n)] :
        n \in 0..7 } \cup
    { [t EXCEPT !.enc = FlipCt(@, i, n)] :
        i \in 1..CtLen(t.enc), n \in 0..7 }

\* C15: with the session as it was and a response that ssm_cmd_full
\* accepted, the same response with one bit of C or of SW2 flipped and
\* RMACt kept makes ssm_cmd_full fail and leave CmdCtr as it was.
C15_BitFlipRejected ==
    (last.op = "ssm" /\ last.ret = 1) =>
        \A t2 \in OneBitOff(last.t) :
            /\ ssm_unwrap(last.pre, t2, last.out_cap).ret = 0
            /\ ssm_unwrap(last.pre, t2, last.out_cap).sess.cmd_ctr =
                   last.pre.cmd_ctr

\* an accepted response that carries one block of ciphertext
C15_Witness ==
    /\ last.op = "ssm" /\ last.ret = 1
    /\ CtLen(last.t.enc) = 16
    /\ Cardinality(OneBitOff(last.t)) = 136

\* the length of E for command data d
EncLen(d) == IF Len(d) > 0 THEN Len(pad_iso9797_m2(d)) ELSE 0

\* the last call was an ssm_cmd_full on an authenticated session with
\* |H| + |E| + 8 > 255
LcTooLong ==
    /\ last.op = "ssm" /\ last.pre.authenticated = 1
    /\ Len(last.hdr) + EncLen(last.data) + 8 > 255

\* C16: when |H| + |E| + 8 exceeds 255, ssm_cmd_full fails, transmits no
\* APDU and leaves the session as it was.
C16_LongCommandRefused ==
    LcTooLong =>
        /\ last.ret = 0
        /\ Len(last.apdus) = 0
        /\ sess = last.pre

\* refused with |H| + |E| + 8 = 256
C16_Witness ==
    /\ LcTooLong /\ last.ret = 0
    /\ Len(last.hdr) + EncLen(last.data) + 8 = 256

\* C17: authenticate_ev2_first called with a key number above 0x0F is
\* rejected and transmits no APDU.
C17_HighKeyNoRejected ==
    (last.op = "auth" /\ last.key_no > 15) =>
        /\ last.ret = 0
        /\ Len(last.apdus) = 0

\* C18: for every D of 0 to 256 bytes, unpad(pad(D)) returns |D| and the
\* first |D| bytes of the buffer are D, also when D ends in 0x00 or 0x80
\* and when |D| is a multiple of 16.
C18_UnpadOfPad ==
    last.op = "unpadded" =>
        /\ last.n = Len(last.data)
        /\ Slice(last.padded, 0, last.n) = last.data

\* 256 bytes that end in 0x80 0x00, padded and unpadded
C18_Witness ==
    /\ last.op = "unpadded"
    /\ Len(last.data) = 256
    /\ last.data[255] = 128 /\ last.data[256] = 0
    /\ Len(last.padded) = 272

\* the parse succeeded and found what went into the build
FsFieldsBack ==
    /\ last.ret = 1
    /\ last.info.file_option = (last.in.cm % 4) + 64
    /\ last.info.ar1 = last.in.ar1
    /\ last.info.ar2 = last.in.ar2
    /\ last.info.sdm_options = last.in.opts
    /\ last.info.sdm_meta_read = last.in.meta
    /\ last.info.sdm_file_read = last.in.file
    /\ last.info.sdm_ctr_ret = last.in.ctr

\* C19 as stated: parse_file_settings, fed the data built by
\* change_file_settings_sdm, succeeds and yields FileOption, AR1, AR2,
\* SDMOptions, SDMMetaRead, SDMFileRead, SDMCtrRet as they went in.
C19_ParseOfBuild ==
    last.op = "parsed_data" => FsFieldsBack

\* inputs whose data hold every field the parser looks for: nibbles that
\* fit, no PICCData offset (meta above 4), no read counter limit, no
\* encrypted file data unless file is 0xF
FsParsable ==
    /\ last.in.meta <= 15 /\ last.in.file <= 15 /\ last.in.ctr <= 15
    /\ last.in.meta > 4
    /\ ~BitSet(last.in.opts, 32)
    /\ BitSet(last.in.opts, 16) => last.in.file = 15

\* C19, amended: parse_file_settings, fed the built data with FileType
\* put before them and FileSize after their third byte, succeeds and
\* yields the seven fields as they went in, for inputs whose SDM nibbles
\* fit in 4 bits, with meta above 4, SDMOptions bit 0x20 clear and bit
\* 0x10 clear unless file is 0xF.
C19_ParseOfResponse ==
    (last.op = "parsed_response" /\ FsParsable) => FsFieldsBack

\* all four offsets built and parsed
C19_Witness ==
    /\ last.op = "parsed_response" /\ FsParsable
    /\ last.ret = 1
    /\ last.in.opts = 193 /\ last.in.meta = 14 /\ last.in.file = 1
    /\ Len(last.data) = 18

\* n bytes from offset off on lie inside the message and are all 0x30
PlaceholderAt(off, n) ==
    /\ off + n <= Len(last.out.ndef)
    /\ \A i \in 1..n : last.out.ndef[off + i] = 48

\* C20: whenever build_sdm_ndef succeeds, the 14 bytes at uid_offset, the
\* 6 at ctr_offset and the 16 at mac_offset lie inside the returned
\* message and are all 0x30.
C20_PlaceholdersAreZeros ==
    (last.op = "built" /\ last.out.ret = 1) =>
        /\ last.out.ndef_len = Len(last.out.ndef)
        /\ PlaceholderAt(last.out.uid_offset, SDM_UID_LEN_ASCII)
        /\ PlaceholderAt(last.out.ctr_offset, SDM_CTR_LEN_ASCII)
        /\ PlaceholderAt(last.out.mac_offset, SDM_MAC_LEN_ASCII)

\* built from a base URL that holds "uid=" and 14 zeros itself: the
\* offset is that of the first "uid="
C20_Witness ==
    /\ last.op = "built" /\ last.out.ret = 1
    /\ last.out.uid_offset + SDM_UID_LEN_ASCII + 5 <= Len(last.base_url) + 7

\* build_sdm_ndef has returned for the base URL "https://example.com/tap"
BuiltExample == last.op = "built" /\ last.base_url = Https \o ExampleTap

\* C21 as stated: for "https://example.com/tap" build_sdm_ndef reports
\* uid_offset 27, ctr_offset 46, mac_offset 58, mac_input_offset 23.
C21_ExampleOffsets ==
    BuiltExample =>
        /\ last.out.ret = 1
        /\ last.out.uid_offset = 27 /\ last.out.ctr_offset = 46
        /\ last.out.mac_offset = 58 /\ last.out.mac_input_offset = 23

\* C21, amended: for "https://example.com/tap" build_sdm_ndef reports
\* uid_offset 27, ctr_offset 46, mac_offset 57, mac_input_offset 23.
C21_ExampleOffsets57 ==
    BuiltExample =>
        /\ last.out.ret = 1
        /\ last.out.uid_offset = 27 /\ last.out.ctr_offset = 46
        /\ last.out.mac_offset = 57 /\ last.out.mac_input_offset = 23

\* the example was built
C21_Witness == BuiltExample /\ last.out.ret = 1

\* the first 27 bytes of the message are NLEN nlen, D1 01 plen 55 04 and
\* "example.com/tap?uid="
ExampleBegins(nlen, plen) ==
    /\ last.out.ret = 1
    /\ Len(last.out.ndef) >= 27
    /\ Slice(last.out.ndef, 0, 27) =
           <<0, nlen, 209, 1, plen, 85, 4>> \o ExampleTap \o <<63>>
               \o UidKey

\* C22 as stated: for "https://example.com/tap" the message begins with
\* 00 3C D1 01 38 55 04 and the ASCII of "example.com/tap?uid=".
C22_ExampleHeader ==
    BuiltExample => ExampleBegins(60, 56)

\* C22, amended: for "https://example.com/tap" the message begins with
\* 00 47 D1 01 43 55 04 and the ASCII of "example.com/tap?uid=": the
\* length field is 0x0047, the payload length 0x43, the prefix code 0x04.
C22_ExampleHeader47 ==
    BuiltExample => ExampleBegins(71, 67)

\* the example was built into a message of 73 bytes
C22_Witness ==
    BuiltExample /\ last.out.ret = 1 /\ last.out.ndef_len = 73

\* the i-th call of the run was a secure GetFileSettings that transmitted
SecureFsSent(i) ==
    last.log[i].what = "fs_secure" /\ Len(last.log[i].apdus) > 0

\* C23: a secure GetFileSettings is transmitted only after a plain
\* GetFileSettings for the file was attempted and failed: the last plain
\* attempt before it failed, so none follows a plain attempt that
\* succeeded.
C23_SecureOnlyAfterPlainFailed ==
    \A i \in 1..Len(last.log) :
        SecureFsSent(i) =>
            \E j \in 1..(i - 1) :
                /\ last.log[j].what = "fs_plain" /\ last.log[j].ret = 0
                /\ \A k \in (j + 1)..(i - 1) : last.log[k].what # "fs_plain"

\* crc32_ieee has returned for 16 zero bytes
CrcOfZeroKey == last.op = "crc" /\ last.data = Zero(16)

\* C24 as stated: crc32_ieee of 16 zero bytes is 0x7FA0DE24.
C24_CrcOfZeros ==
    CrcOfZeroKey => last.crc = <<32672, 56868>>

\* C24, amended: crc32_ieee of 16 zero bytes is 0x1344B4AA (reflected
\* CRC32, initial value 0xFFFFFFFF, polynomial 0xEDB88320, no final
\* inversion, in 32-bit arithmetic).
C24_CrcOfZeros1344B4AA ==
    CrcOfZeroKey => last.crc = <<4932, 46250>>

\* the CRC of 16 zero bytes was computed, and that of "123456789" would
\* be the check value of the convention, 0x340BC6D9
C24_Witness ==
    /\ CrcOfZeroKey
    /\ crc32_ieee(<<49, 50, 51, 52, 53, 54, 55, 56, 57>>) = <<13323, 50905>>

\* C25: ssm_cmd_full on a session whose authenticated flag is clear returns
\* failure, transmits nothing and leaves every session field as it was; a
\* session with the flag clear gets it set only by an authenticate_ev2_first
\* that returned success.
C25_UnauthenticatedRefused ==
    /\ (last.op = "ssm" /\ last.pre.authenticated = 0) =>
            /\ last.ret = 0
            /\ last.sent = 0
            /\ last.apdus = <<>>
            /\ sess = last.pre
    /\ (last.pre.authenticated = 0 /\ sess.authenticated = 1) =>
            /\ last.op = "auth"
            /\ last.ret = 1

\* ssm_cmd_full was called on a session that a failed handshake had left
\* without the flag, and the card had answered that handshake's first part
C25_Witness ==
    /\ last.op = "ssm"
    /\ last.pre.authenticated = 0
    /\ card.rndB # <<>>

\* Pad_M2: 0x80, then zeros up to the next multiple of 16
PadM2(d) == d \o <<128>> \o Zero(15 - (Len(d) % 16))

\* E of a wrapped command: nothing for empty data, else the CBC encryption
\* of Pad_M2(data) under AES-ECB(KENC, A5 5A || TI || CmdCtr LE || 8 zeros)
CmdE(s, data) ==
    IF data = <<>> THEN NoEnc
    ELSE [cbc_key |-> s.kenc,
          cbc_iv  |-> [ecb_key |-> s.kenc,
                       ecb_in  |-> <<165, 90>> \o s.ti
                                   \o <<s.cmd_ctr % 256, s.cmd_ctr \div 256>>
                                   \o <<0, 0, 0, 0, 0, 0, 0, 0>>],
          cbc_pt  |-> PadM2(data)]

\* MACt of a wrapped command: Truncate8 of the CMAC under KMAC of
\* INS || CmdCtr LE16 || TI || H || E
CmdMACt(s, cmd, hdr, e) ==
    cmac_truncate_8([cmac_key |-> s.kmac,
                     cmac_msg |-> [b0  |-> cmd,
                                   ctr |-> <<s.cmd_ctr % 256,
                                             s.cmd_ctr \div 256>>,
                                   ti  |-> s.ti, hdr |-> hdr, enc |-> e]])

\* C26: the APDU ssm_cmd_full transmits is 90 INS 00 00 Lc || H || E ||
\* MACt || 00 with Lc = |H| + |E| + 8, MACt and E as above, all of them
\* from the session as the call found it (CmdCtr before the exchange).
C26_CommandApdu ==
    (last.op = "ssm" /\ last.sent = 1) =>
        /\ Len(last.apdus) = 1
        /\ last.apdus[1] =
               [cla |-> 144, ins |-> last.cmd, p1 |-> 0, p2 |-> 0,
                lc |-> Len(last.hdr) + CtLen(CmdE(last.pre, last.data)) + 8,
                hdr |-> last.hdr, enc |-> CmdE(last.pre, last.data),
                mact |-> CmdMACt(last.pre, last.cmd, last.hdr,
                                 CmdE(last.pre, last.data)),
                nmac |-> 8, le |-> 0]

\* a command with data went out on a session whose counter had advanced
C26_Witness ==
    /\ last.op = "ssm"
    /\ last.sent = 1
    /\ last.data # <<>>
    /\ last.pre.cmd_ctr > 0
    /\ CtLen(last.apdus[1].enc) = 32

\* (CmdCtr + 1) as two bytes, low byte first
NextCtrLe(s) ==
    <<((s.cmd_ctr + 1) % 65536) % 256, ((s.cmd_ctr + 1) % 65536) \div 256>>

\* the response MAC of C under session s: Truncate8 of the CMAC under KMAC
\* of SW2 || (CmdCtr + 1) LE16 || TI || C
RespMACt(s, sw2, c) ==
    cmac_truncate_8([cmac_key |-> s.kmac,
                     cmac_msg |-> [b0 |-> sw2, ctr |-> NextCtrLe(s),
                                   ti |-> s.ti, hdr |-> <<>>, enc |-> c]])

\* C decrypted under KENC and the IV
\* AES-ECB(KENC, 5A A5 || TI || (CmdCtr + 1) LE || 8 zeros)
RespDec(s, c) ==
    IF /\ c.cbc_key = s.kenc
       /\ c.cbc_iv = [ecb_key |-> s.kenc,
                      ecb_in  |-> <<90, 165>> \o s.ti \o NextCtrLe(s)
                                  \o <<0, 0, 0, 0, 0, 0, 0, 0>>]
    THEN c.cbc_pt
    ELSE Garble(c.cbc_pt)

\* Unpad_M2: d without its last 0x80 and the zeros after it
UnpadM2(d) ==
    LET marks == { k \in 1..Len(d) :
                     d[k] = 128 /\ \A j \in (k + 1)..Len(d) : d[j] = 0 }
    IN  IF marks = {} THEN d
        ELSE SubSeq(d, 1, (CHOOSE k \in marks : TRUE) - 1)

\* C27: the response MAC is checked over SW2 || (CmdCtr + 1) LE16 || TI ||
\* C, and the plaintext handed out is C, decrypted under the response IV and
\* unpadded; no plaintext is handed out unless the MAC compared equal.
C27_ResponseUnwrapped ==
    /\ (last.op = "ssm" /\ last.ret = 1) =>
            /\ last.t.mact = RespMACt(last.pre, last.t.sw % 256, last.t.enc)
            /\ last.out = IF CtLen(last.t.enc) = 0 THEN <<>>
                          ELSE UnpadM2(RespDec(last.pre, last.t.enc))
    /\ (last.op = "ssm" /\ last.out # <<>>) =>
            last.t.mact = RespMACt(last.pre, last.t.sw % 256, last.t.enc)

\* a response with data that ends in zeros was unwrapped on a session whose
\* counter had advanced
C27_Witness ==
    /\ last.op = "ssm"
    /\ last.ret = 1
    /\ last.pre.cmd_ctr > 0
    /\ last.out = <<7, 0, 0, 0, 0>>

\* RndA[0..2] || (RndA[2..8] XOR RndB[0..6]) || RndB[6..16] || RndA[8..16]
SvTail(a, b) ==
    <<a[1], a[2]>> \o [i \in 1..6 |-> XorByte(a[2 + i], b[i])]
        \o SubSeq(b, 7, 16) \o SubSeq(a, 9, 16)

\* RndB as the handshake got it: the first response, decrypted under the
\* key with a zero IV
AuthRndB == aes_cbc_decrypt(last.key, Block(Zero(16)), last.ts[1].enc).out

\* C28: after a successful handshake KENC = CMAC(K, SV1) and
\* KMAC = CMAC(K, SV2), SV1 = A5 5A 00 01 00 80 and SV2 = 5A A5 00 01 00 80
\* followed by RndA[0..2] || (RndA[2..8] XOR RndB[0..6]) || RndB[6..16] ||
\* RndA[8..16].
C28_SessionKeys ==
    (last.op = "auth" /\ last.ret = 1) =>
        /\ sess.kenc = [cmac_key |-> last.key,
                        cmac_msg |-> [bytes |-> <<165, 90, 0, 1, 0, 128>>
                                        \o SvTail(last.rnd, AuthRndB)]]
        /\ sess.kmac = [cmac_key |-> last.key,
                        cmac_msg |-> [bytes |-> <<90, 165, 0, 1, 0, 128>>
                                        \o SvTail(last.rnd, AuthRndB)]]

\* a handshake went through with an RndB that differs from RndA in the
\* XORed bytes
C28_Witness ==
    /\ last.op = "auth"
    /\ last.ret = 1
    /\ Len(AuthRndB) = 16
    /\ \E i \in 1..6 : XorByte(last.rnd[2 + i], AuthRndB[i]) # last.rnd[2 + i]
    /\ sess.kenc # sess.kmac

\* the presence table: each field of the tail with its predicate, in order
FsTable(d) ==
    LET o    == d[8]
        meta == d[10] \div 16
        file == d[10] % 16
    IN  << <<"UIDOffset", BitSet(o, 128) /\ meta = 14>>,
           <<"SDMReadCtrOffset", BitSet(o, 64) /\ meta = 14>>,
           <<"PICCDataOffset", meta <= 4>>,
           <<"SDMMACInputOffset", file # 15>>,
           <<"SDMENCOffset", file # 15 /\ BitSet(o, 16)>>,
           <<"SDMENCLength", file # 15 /\ BitSet(o, 16)>>,
           <<"SDMMACOffset", file # 15>>,
           <<"SDMReadCtrLimit", BitSet(o, 32)>> >>

FsPresent(d) == SelectSeq(FsTable(d), LAMBDA e : e[2])

\* 10 bytes and 3 for each field that is present
FsNeed(d) == 10 + 3 * Len(FsPresent(d))

\* the fields that are present, each where the ones before it end
FsReads(d) ==
    [k \in 1..Len(FsPresent(d)) |->
        <<FsPresent(d)[k][1], 7 + 3 * k,
          d[7 + 3 * k + 1] + 256 * d[7 + 3 * k + 2] + 65536 * d[7 + 3 * k + 3]>>]

\* C29: parse_file_settings fails on fewer than 7 bytes; with FileOption
\* bit 0x40 clear it succeeds on 7 bytes or more; with the bit set it
\* succeeds exactly when the input has the 10 bytes and 3 for each field
\* the presence table has present (6 for the ENC pair), and it then has read
\* the fields in the table's order, whatever bytes follow them.
C29_ParseLengths ==
    last.op = "parsed" =>
        /\ Len(last.data) < 7 => last.ret = 0
        /\ (Len(last.data) >= 7 /\ ~BitSet(last.data[2], 64)) => last.ret = 1
        /\ (Len(last.data) >= 7 /\ BitSet(last.data[2], 64)) =>
               /\ last.ret = 1 <=>
                      (Len(last.data) >= 10 /\ Len(last.data) >= FsNeed(last.data))
               /\ last.ret = 1 => last.read = FsReads(last.data)

\* a response with every field that can be present together was parsed,
\* and it had a byte behind the last field
C29_Witness ==
    /\ last.op = "parsed"
    /\ last.ret = 1
    /\ Len(last.read) = 7
    /\ Len(last.data) > FsNeed(last.data)

\* v as 24 bits, low byte first
U24Le(v) == <<v % 256, (v \div 256) % 256, (v \div 65536) % 256>>

\* the payload by the layout: FileOption, AR1, AR2, SDMOptions, SDM_AR low
\* byte first with the nibbles (Meta, File, 0xF, Ctr), and the offsets each
\* under its condition
CfsPayload(in) ==
    <<(in.cm % 4) + 64, in.ar1, in.ar2, in.opts,
      240 + in.ctr, 16 * in.meta + in.file>>
        \o (IF BitSet(in.opts, 128) /\ in.meta = 14 THEN U24Le(in.u) ELSE <<>>)
        \o (IF BitSet(in.opts, 64) /\ in.meta = 14 THEN U24Le(in.c) ELSE <<>>)
        \o (IF in.file # 15 THEN U24Le(in.mi) \o U24Le(in.m) ELSE <<>>)

\* C30: for Meta, File and Ctr that are nibbles, the payload
\* change_file_settings_sdm encrypts is FileOption = (cm & 3) | 0x40, AR1,
\* AR2, SDMOptions, SDM_AR, then UIDOffset iff bit 0x80 and Meta = 0x0E,
\* CtrOffset iff bit 0x40 and Meta = 0x0E, MACInputOffset and MACOffset iff
\* File # 0x0F, and nothing else; it goes out with INS 0x5F and the file
\* number as the one-byte header.
C30_CfsPayload ==
    (/\ last.op = "built"
     /\ last.in.meta <= 15 /\ last.in.file <= 15 /\ last.in.ctr <= 15) =>
        /\ last.data = CfsPayload(last.in)
        /\ Len(last.apdus) = 1
        /\ last.apdus[1].ins = 95
        /\ last.apdus[1].hdr = <<last.file_no>>
        /\ last.apdus[1].enc.cbc_pt = PadM2(CfsPayload(last.in))
        /\ last.apdus[1].enc.cbc_key = last.pre.kenc

\* a payload went out for options that ask for encrypted file data and a
\* counter limit, with a file key: four offsets and no more
C30_Witness ==
    /\ last.op = "built"
    /\ last.in.opts = 241 /\ last.in.meta = 14 /\ last.in.file = 1
    /\ last.in.ctr = 1
    /\ Len(last.apdus) = 1
    /\ Len(last.data) = 18

\* ChangeKey as main called it last: the log entry of the call
KeyCall == last.log[Len(last.log)]

KeyCallSent ==
    /\ last.pc = "done"
    /\ Len(last.log) = 2
    /\ KeyCall.what = "change_key"
    /\ Len(KeyCall.apdus) = 1

\* the CRC of the new key by crc32_ieee, low byte first
CrcLe(k) ==
    << crc32_ieee(k)[2] % 256, crc32_ieee(k)[2] \div 256,
       crc32_ieee(k)[1] % 256, crc32_ieee(k)[1] \div 256 >>

\* C31: change_key sends, as the encrypted data of INS 0xC4 with the
\* target key number as one-byte header, 21 bytes: newKey XOR oldKey, the
\* key version, crc32_ieee(newKey) low byte first; for every target key
\* number.
C31_ChangeKeyPayload ==
    KeyCallSent =>
        /\ KeyCall.apdus[1].ins = 196
        /\ KeyCall.apdus[1].hdr = <<last.key_no>>
        /\ Len(KeyCall.apdus[1].enc.cbc_pt) = 32
        /\ SubSeq(KeyCall.apdus[1].enc.cbc_pt, 1, 16) =
               [i \in 1..16 |-> XorByte(last.new_key[i], last.old_key[i])]
        /\ KeyCall.apdus[1].enc.cbc_pt[17] = 1
        /\ SubSeq(KeyCall.apdus[1].enc.cbc_pt, 18, 21) = CrcLe(last.new_key)
        /\ SubSeq(KeyCall.apdus[1].enc.cbc_pt, 22, 32) = <<128>> \o Zero(10)

\* ChangeKey went out for the key of the handshake (key 0), with a new key
\* 00 11 .. FF whose CRC is 0x7BF88A64 and an old key that is not zero
C31_Witness ==
    /\ KeyCallSent
    /\ last.key_no = 0
    /\ last.new_key = [i \in 1..16 |-> 17 * (i - 1)]
    /\ last.old_key # Zero(16)
    /\ SubSeq(KeyCall.apdus[1].enc.cbc_pt, 18, 21) = <<100, 138, 248, 123>>

\* C32: ssm_cmd_full leaves KENC, KMAC, TI and KeyNo as the call found
\* them, whether it succeeds or fails; CmdCtr is the only field of the
\* session it changes.
C32_OnlyCounterChanges ==
    last.op = "ssm" =>
        /\ sess.kenc = last.pre.kenc
        /\ sess.kmac = last.pre.kmac
        /\ sess.ti = last.pre.ti
        /\ sess.key_no = last.pre.key_no
        /\ sess = [last.pre EXCEPT !.cmd_ctr = sess.cmd_ctr]

\* an exchange failed after its response came in, on a session of a
\* handshake with key number 1 that had already advanced its counter
C32_Witness ==
    /\ last.op = "ssm"
    /\ last.sent = 1
    /\ last.ret = 0
    /\ last.t.rc = SCARD_S_SUCCESS
    /\ last.t.rlen >= 8
    /\ last.t.sw \div 256 = 145
    /\ last.pre.cmd_ctr > 0
    /\ last.pre.key_no = 1
    /\ sess.kenc # Block(Zero(16))

\* C33: for every header length and data length, each write into padded,
\* enc_data, mac_input and apdu stays inside its MAX_APDU bytes.
C33_WritesInside ==
    last.op = "written" =>
        /\ last.wrote.padded <= MAX_APDU
        /\ last.wrote.enc_data <= MAX_APDU
        /\ last.wrote.mac_input <= MAX_APDU
        /\ last.wrote.apdu <= MAX_APDU

\* C34: whenever build_sdm_ndef succeeds, base URLs that hold "uid=",
\* "ctr=" or "mac=" themselves included, the offsets are those of the
\* placeholders the builder appended: mac_input_offset + 4 = uid_offset,
\* uid_offset + 19 = ctr_offset, ctr_offset + 11 = mac_offset and
\* mac_offset + 16 = ndef_len.
C34_OffsetsOfAppended ==
    (last.op = "built" /\ last.out.ret = 1) =>
        /\ last.out.mac_input_offset + 4 = last.out.uid_offset
        /\ last.out.uid_offset + 19 = last.out.ctr_offset
        /\ last.out.ctr_offset + 11 = last.out.mac_offset
        /\ last.out.mac_offset + 16 = last.out.ndef_len

\* C35: change_key returns success, and main prints "ChangeKey OK", only
\* when the status word of the card is 0x9100.
C35_OkOnlyOn9100 ==
    (last.pc = "done" /\ last.printed = "ChangeKey OK") =>
        /\ KeyCall.what = "change_key"
        /\ KeyCall.ret = 1
        /\ KeyCall.ts[1].sw = 37120

\* C36: whenever parse_file_settings returns failure, info->valid is 0.
C36_FailureLeavesInvalid ==
    (last.op = "parsed" /\ last.ret = 0) => last.info.valid = 0

\* the i-th call of the run transmitted an APDU with instruction ins
Transmitted(i, what, ins) ==
    /\ last.log[i].what = what
    /\ \E n \in 1..Len(last.log[i].apdus) : last.log[i].apdus[n].ins = ins

\* a call of this kind before the i-th returned ret, and none in between
\* returned anything else
LastBefore(i, what, ret) ==
    \E j \in 1..(i - 1) :
        /\ last.log[j].what = what
        /\ last.log[j].ret = ret
        /\ \A k \in (j + 1)..(i - 1) : last.log[k].what # what

\* C37: in SDM setup ChangeFileSettings (INS 0x5F) is transmitted only
\* after the handshake succeeded, and UPDATE BINARY (INS 0xD6) only after
\* the NDEF build, the handshake and ChangeFileSettings all returned
\* success.
C37_SetupInOrder ==
    \A i \in 1..Len(last.log) :
        /\ Transmitted(i, "cfs", 95) =>
               LastBefore(i, "build", 1) /\ LastBefore(i, "auth_cfg", 1)
        /\ Transmitted(i, "write", 214) =>
               /\ LastBefore(i, "build", 1)
               /\ LastBefore(i, "auth_cfg", 1)
               /\ LastBefore(i, "cfs", 1)

\* the template was written after ChangeFileSettings had gone through, in
\* a run whose first GetFileSettings had failed
C37_Witness ==
    /\ last.fs_plain_failed = 1
    /\ \E i \in 1..Len(last.log) :
          /\ Transmitted(i, "write", 214)
          /\ last.log[i].ret = 1
          /\ LastBefore(i, "cfs", 1)

====
